---------------------------- MODULE Spec2Model ----------------------------
(***************************************************************************)
(* chronix: the deadline-aware placement engine (core/scheduler.py) and    *)
(* the domain model it builds (core/models.py).                            *)
(*                                                                         *)
(* Time.  An instant (datetime) is an integer count of ticks since the     *)
(* midnight that begins day 0; a duration (timedelta) is an integer count  *)
(* of ticks.  One tick is TickSeconds = 1800 s, so a calendar day holds    *)
(* TicksPerDay = 48 ticks.  All aware instants share one timezone.         *)
(* Urgency scores are floats counted in seconds in the source; here they   *)
(* are integers counted in units of ScoreUnitSeconds = 100 s, which keeps  *)
(* 1e10, -1e9 and the halving of a whole number of ticks exact.            *)
(*                                                                         *)
(* Task identity.  Task.id is a random token generated at construction     *)
(* (models.py:27), so two entries of a task list carry the same id only    *)
(* when they are the same Task object.                                     *)
(***************************************************************************)
EXTENDS Integers, Sequences, FiniteSets, TLC

VARIABLES
    mode,              \* entry point called: "schedule_tasks" | "schedule_continuous" | "aggregate"
    tasks,             \* argument: ordered list of Task
    start_time,        \* argument: the start instant
    start_aware,       \* whether start_time.tzinfo is set
    blocked_arg,       \* schedule_tasks argument blocked_time (caller's order)
    num_days,          \* schedule_continuous argument
    daily_blocks,      \* daily_blocked_time_fn, as day offset -> list of TimeBlock
    pc,                \* "call" | "loop" | "build" | "return" | "done" | "error"
    sorted_blocks,     \* local of the entry point
    remaining_work,    \* local of _schedule_opportunistically: id -> timedelta
    incomplete_tasks,  \* local of _schedule_opportunistically
    current_time,      \* the cursor
    segments_by_task,  \* dict id -> list of (task, start, end), in key insertion order
    loop_exit,         \* how the while loop was left: "running" | "all_done" | "no_task" | "no_segment"
    scheduled,         \* list of ScheduledTask returned by _build_scheduled_tasks
    conflicts,         \* list of conflict messages
    result,            \* the DaySchedule, or the dict date -> DaySchedule
    error,             \* exception raised: "none" | "ValueError" | "TypeError"
    project_todos,     \* the ProjectTodoList objects the caller holds
    project_label,     \* Task.project of every task object: id -> label
    aggregate_arg,     \* argument of the latest TaskAggregator.aggregate call
    aggregated,        \* list of AggregatedTask returned by the latest aggregate call
    task_pool,         \* list of Task returned by the latest get_task_pool call
    agg_pc,            \* "off" | "ready" | "aggregated" | "pooled"
    agg_calls,         \* number of aggregate calls made
    ctor_call,         \* a constructor call of core/models.py: class and arguments
    ctor_result,       \* "off" | "pending" | "ok" | "ValueError"
    tick_us            \* timedelta(1 tick) of this run, in microseconds

vars == <<mode, tasks, start_time, start_aware, blocked_arg, num_days, daily_blocks,
          pc, sorted_blocks, remaining_work, incomplete_tasks, current_time,
          segments_by_task, loop_exit, scheduled, conflicts, result, error,
          project_todos, project_label, aggregate_arg, aggregated, task_pool,
          agg_pc, agg_calls, ctor_call, ctor_result, tick_us>>

constructor_vars == <<ctor_call, ctor_result>>

aggregator_vars == <<project_todos, project_label, aggregate_arg, aggregated, task_pool,
                     agg_pc, agg_calls>>

scheduler_vars == <<tick_us, mode, tasks, start_time, start_aware, blocked_arg, num_days,
                    daily_blocks, pc, sorted_blocks, remaining_work, incomplete_tasks,
                    current_time, segments_by_task, loop_exit, scheduled, conflicts,
                    result, error>>

(***************************************************************************)
(* Representation of datetime, timedelta and float scores.                 *)
(***************************************************************************)
None == -1               \* Python None for an Optional[datetime] / Optional[int]
TickSeconds == 1800      \* timedelta(1 tick).total_seconds()
TicksPerDay == 48        \* datetime.date() changes every 48 ticks
ScoreUnitSeconds == 100  \* one unit of an urgency score

\* a run counts its instants in ticks of half an hour, or of a microsecond
\* (the resolution of datetime and timedelta)
TickMicros == TickSeconds * 1000000
HalfHourRun == tick_us = TickMicros
MicrosecondRun == tick_us = 1

total_seconds(td) == td * TickSeconds
\* timedelta.total_seconds() as a score: a float number of seconds that is a
\* multiple of 100, counted in units of 100 s (the seconds themselves pass
\* 2^31 for deadlines centuries ahead).  This is the score of a half-hour
\* run; the tasks of a microsecond run carry no deadline
Score(td) == td * (TickSeconds \div ScoreUnitSeconds)
NO_DEADLINE_BASE == 100000000    \* 1e10 s in score units
PAST_DEADLINE_BASE == -10000000  \* -1e9 s in score units

\* the float 1e10 + x has 2^19 steps to the second: 2^13 steps are 5^6 us
FloatStepsPerGroup == 8192
MicrosPerGroup == 15625
\* the float nearest to 1e10 + us / 1e6, in steps of 2^-19 s above 1e10
\* (no whole number of microseconds lies half way between two steps)
FloatStepsAbove1e10(us) ==
    (2 * FloatStepsPerGroup * us + MicrosPerGroup) \div (2 * MicrosPerGroup)

\* 1e10 + td.total_seconds() above NO_DEADLINE_BASE.  Whole half hours are
\* kept exactly and counted in score units; a microsecond run, whose scores
\* differ by less than a score unit, counts the steps of the float
AboveNoDeadlineBase(td) ==
    IF MicrosecondRun THEN FloatStepsAbove1e10(td) ELSE Score(td)

\* a day has 8.64e10 microseconds: the instants of a microsecond run are all
\* on the day of its start
date(t) == IF MicrosecondRun THEN 0 ELSE t \div TicksPerDay
\* strftime('%Y-%m-%d %H:%M'): day, hour, minute (seconds are dropped)
strftime(t) ==
    IF MicrosecondRun THEN <<0, 0, t \div 60000000>>
    ELSE <<date(t), (total_seconds(t % TicksPerDay)) \div 3600,
           ((total_seconds(t % TicksPerDay)) % 3600) \div 60>>

Min(a, b) == IF a <= b THEN a ELSE b

\* insert x, which follows every element of the sorted list s in the input,
\* after the elements whose key is not greater
RECURSIVE InsertSorted(_, _, _)
InsertSorted(Key(_), x, s) ==
    IF s = <<>> THEN <<x>>
    ELSE IF Key(x) < Key(Head(s)) THEN <<x>> \o s
    ELSE <<Head(s)>> \o InsertSorted(Key, x, Tail(s))

\* sorted(s, key=Key) / list.sort(key=Key): stable, ascending
RECURSIVE StableSortBy(_, _)
StableSortBy(Key(_), s) ==
    IF s = <<>> THEN <<>>
    ELSE InsertSorted(Key, s[Len(s)], StableSortBy(Key, SubSeq(s, 1, Len(s) - 1)))

\* [F(x) for x in s]
RECURSIVE MapSeq(_, _)
MapSeq(F(_), s) == IF s = <<>> THEN <<>> ELSE <<F(Head(s))>> \o MapSeq(F, Tail(s))

RECURSIVE SeqSum(_)
SeqSum(s) == IF s = <<>> THEN 0 ELSE Head(s) + SeqSum(Tail(s))

RECURSIVE Flatten(_)
Flatten(ss) == IF ss = <<>> THEN <<>> ELSE Head(ss) \o Flatten(Tail(ss))

(***************************************************************************)
(* Domain model (core/models.py).                                          *)
(***************************************************************************)
Task(id, title, estimated_duration, deadline_user, deadline_external, completed) ==
    [id |-> id, title |-> title, estimated_duration |-> estimated_duration,
     deadline_user |-> deadline_user, deadline_external |-> deadline_external,
     completed |-> completed]

\* effective_deadline that prefers the user deadline
effective_deadline_UserFirst(task) ==
    IF task.deadline_user # None THEN task.deadline_user ELSE task.deadline_external

\* Task.effective_deadline
effective_deadline(task) ==
    IF task.deadline_external # None THEN task.deadline_external ELSE task.deadline_user

\* aware: both boundaries carry tzinfo (TRUE) or both are naive (FALSE)
TimeBlock(start, end, aware) == [start |-> start, end |-> end, aware |-> aware]

NoBlock == [start |-> None, end |-> None, aware |-> TRUE]   \* a None TimeBlock
NoTask == Task(0, "", 0, None, None, FALSE)                 \* a None Task

ScheduledTask(task, start, end, vu, ve, is_segment, segment_index, total_segments) ==
    [task |-> task, start |-> start, end |-> end,
     violates_deadline_user |-> vu, violates_deadline_external |-> ve,
     is_segment |-> is_segment, segment_index |-> segment_index,
     total_segments |-> total_segments]

\* ScheduledTask validators: TRUE when construction succeeds
validate_start_before_end(st) == st.start < st.end

validate_duration_matches(st) ==
    st.is_segment \/ (st.end - st.start) = st.task.estimated_duration

\* validate_segment_fields without the upper bound on segment_index
validate_segment_fields_NoUpperBound(st) ==
    st.is_segment =>
        /\ st.segment_index # None /\ st.total_segments # None
        /\ st.segment_index >= 1

validate_segment_fields(st) ==
    st.is_segment =>
        /\ st.segment_index # None /\ st.total_segments # None
        /\ st.segment_index >= 1 /\ st.segment_index <= st.total_segments

ScheduledTaskValid(st) ==
    /\ validate_start_before_end(st)
    /\ validate_duration_matches(st)
    /\ validate_segment_fields(st)

DaySchedule(d, sts, blocks, confl) ==
    [date |-> d, scheduled_tasks |-> sts, blocked_time |-> blocks, conflicts |-> confl]

(***************************************************************************)
(* SchedulingEngine helpers (core/scheduler.py).                           *)
(***************************************************************************)
\* _find_next_block without the test on block.end
find_next_block_StartOnly(from_time, blocked_time) ==
    LET hits == {i \in 1..Len(blocked_time) : blocked_time[i].start >= from_time}
    IN  IF hits = {} THEN NoBlock
        ELSE blocked_time[CHOOSE i \in hits : \A j \in hits : i <= j]

\* _find_next_block: the first block of the list that starts at or after
\* from_time or ends after it
_find_next_block(from_time, blocked_time) ==
    LET hits == {i \in 1..Len(blocked_time) :
                    \/ blocked_time[i].start >= from_time
                    \/ blocked_time[i].end > from_time}
    IN  IF hits = {} THEN NoBlock
        ELSE blocked_time[CHOOSE i \in hits : \A j \in hits : i <= j]

_time_ranges_overlap(start1, end1, start2, end2) == start1 < end2 /\ start2 < end1

\* _violates_deadline with >= for >
violates_deadline_AtOrAfter(task_end, deadline) ==
    IF deadline = None THEN FALSE ELSE task_end >= deadline

_violates_deadline(task_end, deadline) ==
    IF deadline = None THEN FALSE ELSE task_end > deadline

\* _estimate_completion_time that does not count the work done before a block
RECURSIVE estimate_completion_time_NoPartialWork(_, _, _)
estimate_completion_time_NoPartialWork(start, duration, blocked_time) ==
    IF ~(duration > 0) THEN start
    ELSE LET next_block == _find_next_block(start, blocked_time)
             time_until_block == next_block.start - start
         IN  IF next_block = NoBlock THEN start + duration
             ELSE IF time_until_block <= 0
                  THEN estimate_completion_time_NoPartialWork(next_block.end, duration,
                                                              blocked_time)
             ELSE IF time_until_block >= duration THEN start + duration
             ELSE estimate_completion_time_NoPartialWork(next_block.end, duration,
                                                         blocked_time)

\* _estimate_completion_time: the while loop, as recursion on (remaining, current)
RECURSIVE _estimate_completion_time(_, _, _)
_estimate_completion_time(start, duration, blocked_time) ==
    IF ~(duration > 0) THEN start
    ELSE LET next_block == _find_next_block(start, blocked_time)
             time_until_block == next_block.start - start
         IN  IF next_block = NoBlock THEN start + duration
             ELSE IF time_until_block <= 0
                  THEN _estimate_completion_time(next_block.end, duration, blocked_time)
             ELSE IF time_until_block >= duration THEN start + duration
             ELSE _estimate_completion_time(next_block.end, duration - time_until_block,
                                            blocked_time)

_estimate_duration_with_blocks(start, duration, blocked_time) ==
    _estimate_completion_time(start, duration, blocked_time) - start

\* the "skip past any blocks that start before current time" loop
RECURSIVE SkipBlocks(_, _)
SkipBlocks(current_start, blocked_time) ==
    LET next_block == _find_next_block(current_start, blocked_time)
    IN  IF next_block = NoBlock \/ next_block.start >= current_start
        THEN current_start
        ELSE SkipBlocks(next_block.end, blocked_time)

\* _schedule_task_segment that always runs up to the next block
RECURSIVE schedule_task_segment_NoMin(_, _, _, _)
schedule_task_segment_NoMin(task, earliest_start, blocked_time, remaining_duration) ==
    LET current_start == SkipBlocks(earliest_start, blocked_time)
        next_block == _find_next_block(current_start, blocked_time)
        time_until_block == next_block.start - current_start
    IN  IF next_block = NoBlock
        THEN <<(<<current_start, current_start + remaining_duration>>),
               current_start + remaining_duration>>
        ELSE IF time_until_block <= 0
        THEN schedule_task_segment_NoMin(task, next_block.end, blocked_time,
                                         remaining_duration)
        ELSE <<(<<current_start, current_start + time_until_block>>),
               current_start + time_until_block>>

\* _schedule_task_segment that does not skip a block starting at the cursor
schedule_task_segment_NoSkipAtStart(task, earliest_start, blocked_time, remaining_duration) ==
    LET current_start == SkipBlocks(earliest_start, blocked_time)
        next_block == _find_next_block(current_start, blocked_time)
        time_until_block == next_block.start - current_start
    IN  IF next_block = NoBlock
        THEN <<(<<current_start, current_start + remaining_duration>>),
               current_start + remaining_duration>>
        ELSE LET segment_duration == Min(remaining_duration, time_until_block)
             IN  <<(<<current_start, current_start + segment_duration>>),
                   current_start + segment_duration>>

\* _schedule_task_segment that never splits: a task that does not fit before
\* the next block is placed after it
RECURSIVE schedule_task_segment_NoSplit(_, _, _, _)
schedule_task_segment_NoSplit(task, earliest_start, blocked_time, remaining_duration) ==
    LET current_start == SkipBlocks(earliest_start, blocked_time)
        next_block == _find_next_block(current_start, blocked_time)
        time_until_block == next_block.start - current_start
    IN  IF next_block = NoBlock
        THEN <<(<<current_start, current_start + remaining_duration>>),
               current_start + remaining_duration>>
        ELSE IF time_until_block < remaining_duration
        THEN schedule_task_segment_NoSplit(task, next_block.end, blocked_time,
                                           remaining_duration)
        ELSE <<(<<current_start, current_start + remaining_duration>>),
               current_start + remaining_duration>>

\* _schedule_task_segment that ends a segment at midnight when no block is ahead
RECURSIVE schedule_task_segment_StopAtMidnight(_, _, _, _)
schedule_task_segment_StopAtMidnight(task, earliest_start, blocked_time, remaining_duration) ==
    LET current_start == SkipBlocks(earliest_start, blocked_time)
        next_block == _find_next_block(current_start, blocked_time)
        time_until_block == next_block.start - current_start
        midnight == (date(current_start) + 1) * TicksPerDay
    IN  IF next_block = NoBlock
        THEN <<(<<current_start, Min(current_start + remaining_duration, midnight)>>),
               Min(current_start + remaining_duration, midnight)>>
        ELSE IF time_until_block <= 0
        THEN schedule_task_segment_StopAtMidnight(task, next_block.end, blocked_time,
                                                  remaining_duration)
        ELSE LET segment_duration == Min(remaining_duration, time_until_block)
             IN  <<(<<current_start, current_start + segment_duration>>),
                   current_start + segment_duration>>

\* _schedule_task_segment: <<segment, next_time>>, segment = <<start, end>>
RECURSIVE _schedule_task_segment(_, _, _, _)
_schedule_task_segment(task, earliest_start, blocked_time, remaining_duration) ==
    LET current_start == SkipBlocks(earliest_start, blocked_time)
        next_block == _find_next_block(current_start, blocked_time)
        time_until_block == next_block.start - current_start
    IN  IF next_block = NoBlock
        THEN <<(<<current_start, current_start + remaining_duration>>),
               current_start + remaining_duration>>
        ELSE IF time_until_block <= 0
        THEN _schedule_task_segment(task, next_block.end, blocked_time, remaining_duration)
        ELSE LET segment_duration == Min(remaining_duration, time_until_block)
             IN  <<(<<current_start, current_start + segment_duration>>),
                   current_start + segment_duration>>

(***************************************************************************)
(* Selection.                                                              *)
(***************************************************************************)
\* dict.get(key, timedelta(0))
Get(remaining, id) == IF id \in DOMAIN remaining THEN remaining[id] ELSE 0

\* _calculate_urgency: lower score = more urgent
_calculate_urgency(task, now, remaining_duration, blocked_time) ==
    IF effective_deadline(task) = None
    THEN NO_DEADLINE_BASE + AboveNoDeadlineBase(remaining_duration)
    ELSE LET time_until_deadline == effective_deadline(task) - now
         IN  IF time_until_deadline <= 0
             THEN PAST_DEADLINE_BASE + Score(time_until_deadline)
             ELSE LET completion_time ==
                          _estimate_completion_time(now, remaining_duration, blocked_time)
                      time_with_blocks == completion_time - now
                      slack == time_until_deadline - time_with_blocks
                      base_score == Score(slack)
                  IN  IF task.deadline_external # None
                      THEN base_score \div 2   \* base_score *= 0.5, exact: Score is even
                      ELSE base_score

\* the loop body with user deadlines never classified as critical
Endangers_ExternalOnly(task, other_task, estimated_end, remaining, blocked_time) ==
    /\ other_task.id # task.id
    /\ effective_deadline(other_task) # None
    /\ Get(remaining, other_task.id) > 0
    /\ LET other_remaining == Get(remaining, other_task.id)
           time_until_other_deadline == effective_deadline(other_task) - estimated_end
           time_needed_for_other ==
               _estimate_duration_with_blocks(estimated_end, other_remaining, blocked_time)
           is_critical == other_task.deadline_external # None
       IN  is_critical /\ time_needed_for_other > time_until_other_deadline

\* the body of the for loop of _is_safe_to_schedule: TRUE when other_task makes
\* scheduling `task` unsafe (the loop returns False at it)
Endangers(task, other_task, estimated_end, remaining, blocked_time) ==
    /\ other_task.id # task.id
    /\ effective_deadline(other_task) # None
    /\ Get(remaining, other_task.id) > 0
    /\ LET other_remaining == Get(remaining, other_task.id)
           time_until_other_deadline == effective_deadline(other_task) - estimated_end
           time_needed_for_other ==
               _estimate_duration_with_blocks(estimated_end, other_remaining, blocked_time)
           slack == time_until_other_deadline - time_needed_for_other
           is_critical ==
               IF other_task.deadline_external # None THEN TRUE
               ELSE IF other_task.deadline_user # None THEN slack < time_needed_for_other
               ELSE FALSE
       IN  is_critical /\ time_needed_for_other > time_until_other_deadline

_is_safe_to_schedule(task, now, remaining, all_tasks, blocked_time) ==
    LET task_remaining == Get(remaining, task.id)
        estimated_end == _estimate_completion_time(now, task_remaining, blocked_time)
    IN  \A k \in 1..Len(all_tasks) :
            ~Endangers(task, all_tasks[k], estimated_end, remaining, blocked_time)

\* candidates = [t for t in tasks if remaining_work.get(t.id, 0) > 0]
Candidates(task_list, remaining) ==
    SelectSeq(task_list, LAMBDA t : Get(remaining, t.id) > 0)

\* urgency_scores with equal scores in the reverse of the list order
UrgencyScores_TiesReversed(task_list, remaining, now, blocked_time) ==
    LET candidates == Candidates(task_list, remaining)
        n == Len(candidates)
        scored == MapSeq(LAMBDA k : <<_calculate_urgency(candidates[n + 1 - k], now,
                                        Get(remaining, candidates[n + 1 - k].id),
                                        blocked_time), candidates[n + 1 - k]>>,
                         [k \in 1..n |-> k])
    IN  StableSortBy(LAMBDA x : x[1], scored)

\* urgency_scores after the sort: list of <<score, task>>
UrgencyScores(task_list, remaining, now, blocked_time) ==
    LET candidates == Candidates(task_list, remaining)
        scored == MapSeq(LAMBDA t : <<_calculate_urgency(t, now, Get(remaining, t.id),
                                                          blocked_time), t>>,
                         candidates)
    IN  StableSortBy(LAMBDA x : x[1], scored)

\* _select_next_task without the safety walk: the lowest score always
select_next_task_MostUrgentOnly(task_list, remaining, now, blocked_time) ==
    LET candidates == Candidates(task_list, remaining)
        urgency_scores == UrgencyScores(task_list, remaining, now, blocked_time)
    IN  IF candidates = <<>> THEN NoTask ELSE urgency_scores[1][2]

_select_next_task(task_list, remaining, now, blocked_time) ==
    LET candidates == Candidates(task_list, remaining)
        urgency_scores == UrgencyScores(task_list, remaining, now, blocked_time)
        safe == {k \in 1..Len(urgency_scores) :
                    _is_safe_to_schedule(urgency_scores[k][2], now, remaining,
                                         candidates, blocked_time)}
    IN  IF candidates = <<>> THEN NoTask
        ELSE IF safe # {} THEN urgency_scores[CHOOSE k \in safe : \A j \in safe : k <= j][2]
        ELSE urgency_scores[1][2]

(***************************************************************************)
(* Finalization.                                                           *)
(***************************************************************************)
\* a conflict message: the text names the title, the final end, the kind of
\* deadline and the deadline
ConflictMessage_DeadlineAsEnd(task, final_end, kind, deadline) ==
    [title |-> task.title, ends_at |-> strftime(deadline), kind |-> kind,
     deadline |-> strftime(deadline)]

ConflictMessage(task, final_end, kind, deadline) ==
    [title |-> task.title, ends_at |-> strftime(final_end), kind |-> kind,
     deadline |-> strftime(deadline)]

\* BuildGroup variants: (multi_from) segments count from which a task is marked
\* multi-segment, (both) whether both conflict messages can be emitted,
\* (total_extra) what is added to total_segments
BuildGroupVariant(segs, multi_from, both, total_extra) ==
    LET segments == StableSortBy(LAMBDA s : s[2], segs)
        task == segments[1][1]
        final_end == segments[Len(segments)][3]
        is_multi_segment == Len(segments) >= multi_from
        violates_user == _violates_deadline(final_end, task.deadline_user)
        violates_external == _violates_deadline(final_end, task.deadline_external)
    IN  [conflicts |->
            (IF violates_user /\ task.deadline_user # None
             THEN <<ConflictMessage(task, final_end, "user", task.deadline_user)>>
             ELSE <<>>)
            \o
            (IF violates_external /\ task.deadline_external # None
                /\ (both \/ ~violates_user)
             THEN <<ConflictMessage(task, final_end, "external", task.deadline_external)>>
             ELSE <<>>),
         scheduled |->
            MapSeq(LAMBDA idx :
                       ScheduledTask(task, segments[idx][2], segments[idx][3],
                                     violates_user, violates_external, is_multi_segment,
                                     IF is_multi_segment THEN idx ELSE None,
                                     IF is_multi_segment THEN Len(segments) + total_extra
                                     ELSE None),
                   [k \in 1..Len(segments) |-> k])]

\* a task counts as multi-segment only from three segments on
BuildGroup_MultiFromThree(segs) == BuildGroupVariant(segs, 3, TRUE, 0)
\* the external message is an elif of the user message
BuildGroup_ElifExternal(segs) == BuildGroupVariant(segs, 2, FALSE, 0)
\* total_segments is one too many
BuildGroup_TotalOffByOne(segs) == BuildGroupVariant(segs, 2, TRUE, 1)

\* one iteration of  for task_id, segments in segments_by_task.items()
\* segs: list of <<task, start, end>>
BuildGroup(segs) ==
    LET segments == StableSortBy(LAMBDA s : s[2], segs)
        task == segments[1][1]
        final_end == segments[Len(segments)][3]
        is_multi_segment == Len(segments) > 1
        violates_user == _violates_deadline(final_end, task.deadline_user)
        violates_external == _violates_deadline(final_end, task.deadline_external)
    IN  [conflicts |->
            (IF violates_user /\ task.deadline_user # None
             THEN <<ConflictMessage(task, final_end, "user", task.deadline_user)>>
             ELSE <<>>)
            \o
            (IF violates_external /\ task.deadline_external # None
             THEN <<ConflictMessage(task, final_end, "external", task.deadline_external)>>
             ELSE <<>>),
         scheduled |->
            MapSeq(LAMBDA idx :
                       ScheduledTask(task, segments[idx][2], segments[idx][3],
                                     violates_user, violates_external, is_multi_segment,
                                     IF is_multi_segment THEN idx ELSE None,
                                     IF is_multi_segment THEN Len(segments) ELSE None),
                   [k \in 1..Len(segments) |-> k])]

\* _build_scheduled_tasks without the final sort by start
build_scheduled_tasks_NoSort(groups) ==
    LET built == MapSeq(LAMBDA g : BuildGroup(g.segments), groups)
        all_scheduled == Flatten(MapSeq(LAMBDA b : b.scheduled, built))
        all_conflicts == Flatten(MapSeq(LAMBDA b : b.conflicts, built))
    IN  [ok |-> \A k \in 1..Len(all_scheduled) : ScheduledTaskValid(all_scheduled[k]),
         scheduled |-> all_scheduled,
         conflicts |-> all_conflicts]

\* _build_scheduled_tasks: groups is the dict as a list of [id, segments]
\* in key insertion order.  ok is FALSE when a ScheduledTask validator raises.
_build_scheduled_tasks(groups) ==
    LET built == MapSeq(LAMBDA g : BuildGroup(g.segments), groups)
        all_scheduled == Flatten(MapSeq(LAMBDA b : b.scheduled, built))
        all_conflicts == Flatten(MapSeq(LAMBDA b : b.conflicts, built))
    IN  [ok |-> \A k \in 1..Len(all_scheduled) : ScheduledTaskValid(all_scheduled[k]),
         scheduled |-> StableSortBy(LAMBDA st : st.start, all_scheduled),
         conflicts |-> all_conflicts]

\* segments_by_task[task.id].append((task, start, end)) on a defaultdict(list)
AppendSegment(groups, task, start, end) ==
    IF \E g \in 1..Len(groups) : groups[g].id = task.id
    THEN [g \in 1..Len(groups) |->
            IF groups[g].id = task.id
            THEN [groups[g] EXCEPT !.segments = Append(@, <<task, start, end>>)]
            ELSE groups[g]]
    ELSE Append(groups, [id |-> task.id, segments |-> << <<task, start, end>> >>])

(***************************************************************************)
(* Bounds of the inputs.                                                   *)
(***************************************************************************)
MaxTasks == 2    \* longest task list
MaxBlocks == 2   \* most blocked intervals handed to schedule_tasks
MaxTime == 3     \* latest block boundary and latest deadline (ticks)
MaxDur == 2      \* longest estimated_duration (ticks)
MaxStart == 1    \* latest start instant (ticks)
MaxDays == 2     \* largest num_days

Durations == 1..MaxDur
Deadlines == {None} \cup 1..MaxTime

\* the Task values that can sit at position id of a list; the title is a code
\* for a string, ordered as the strings are
TaskShapes(id) ==
    {Task(id, id, d, du, de, FALSE) : d \in Durations, du \in Deadlines, de \in Deadlines}
    \cup {Task(id, id, d, du, None, TRUE) : d \in Durations, du \in {None, 1}}

\* lists of n tasks: every entry is a new Task or an earlier entry again
TaskListsOfLen(n) ==
    {s \in [1..n -> UNION {TaskShapes(i) : i \in 1..n}] :
        \A k \in 1..n : s[k].id = k \/ \E j \in 1..(k - 1) : s[k] = s[j]}

TaskLists == UNION {TaskListsOfLen(n) : n \in 0..MaxTasks}

Intervals(aware) ==
    UNION {{TimeBlock(b, e, aware) : e \in (b + 1)..MaxTime} : b \in 0..(MaxTime - 1)}

\* lists of at most MaxBlocks blocks, in any order
BlockLists(blocks) == UNION {[1..n -> blocks] : n \in 0..MaxBlocks}

(***************************************************************************)
(* The run of one call of schedule_tasks or schedule_continuous.           *)
(***************************************************************************)
Locals0 ==
    /\ pc = "call"
    /\ sorted_blocks = <<>>
    /\ remaining_work = <<>>
    /\ incomplete_tasks = <<>>
    /\ current_time = None
    /\ segments_by_task = <<>>
    /\ loop_exit = "running"
    /\ scheduled = <<>>
    /\ conflicts = <<>>
    /\ result = <<>>
    /\ error = "none"

\* the blocked_time lists handed to schedule_tasks: validated blocks, and
\* lists holding a naive block (a TimeBlock that bypassed its validators)
AwareBlockLists == BlockLists(Intervals(TRUE))
NaiveBlockLists ==
    {bl \in BlockLists(Intervals(TRUE) \cup Intervals(FALSE)) :
        \E k \in 1..Len(bl) : ~bl[k].aware}
NaiveTaskLists == TaskListsOfLen(0) \cup TaskListsOfLen(1)

\* schedule_tasks with well-formed arguments
InitScheduleTasks ==
    /\ mode = "schedule_tasks"
    /\ tasks \in TaskLists
    /\ start_time \in 0..MaxStart
    /\ start_aware = TRUE
    /\ blocked_arg \in AwareBlockLists
    /\ num_days = 0
    /\ daily_blocks = <<>>
    /\ Locals0

\* schedule_tasks handed a naive start instant or a naive block
InitScheduleTasksNaive ==
    /\ mode = "schedule_tasks"
    /\ tasks \in NaiveTaskLists
    /\ start_time \in 0..MaxStart
    /\ start_aware \in BOOLEAN
    /\ blocked_arg \in IF start_aware THEN NaiveBlockLists
                                      ELSE AwareBlockLists \cup NaiveBlockLists
    /\ num_days = 0
    /\ daily_blocks = <<>>
    /\ Locals0

\* schedule_continuous: tasks that fit in a day or spill over midnight
LongDurations == {2, TicksPerDay - 1, TicksPerDay + 2}

ContinuousTaskShapes(id) ==
    {Task(id, id, d, None, de, FALSE) : d \in LongDurations, de \in {None, TicksPerDay}}
    \cup {Task(id, id, 2, None, None, TRUE)}

ContinuousTaskLists ==
    UNION {{s \in [1..n -> UNION {ContinuousTaskShapes(i) : i \in 1..n}] :
               \A k \in 1..n : s[k].id = k \/ \E j \in 1..(k - 1) : s[k] = s[j]}
           : n \in 0..MaxTasks}

\* the recurring blocks of a day: a meeting early in the day, and sleep from
\* 22:00 to 02:00 of the next day
Meeting(day, aware) == TimeBlock(day * TicksPerDay + 1, day * TicksPerDay + 2, aware)
Sleep(day, aware) == TimeBlock(day * TicksPerDay + 44, day * TicksPerDay + 52, aware)

DayBlockChoices(day, aware) ==
    {<<>>, <<Sleep(day, aware)>>, <<Sleep(day, aware), Meeting(day, aware)>>}

\* daily_blocked_time_fn on the days start..start+n (list index = offset + 1);
\* naive_day is the offset of the one day whose blocks are naive, or None
RECURSIVE DailyBlockFns(_, _)
DailyBlockFns(n, naive_day) ==
    IF n < 0 THEN {<<>>}
    ELSE {Append(f, day) : f \in DailyBlockFns(n - 1, naive_day),
                           day \in DayBlockChoices(n, naive_day # n)}

\* the (num_days, daily_blocked_time_fn) pairs handed to schedule_continuous:
\* all days aware, or exactly one day with naive blocks
AwareDailyArgs ==
    UNION {{<<n, f>> : f \in DailyBlockFns(n, None)} : n \in 0..MaxDays}
NaiveDailyArgs ==
    UNION {UNION {{<<n, f>> : f \in DailyBlockFns(n, naive_day)} : naive_day \in 0..n}
           : n \in 0..MaxDays}

\* start instants: midnight, 22:30 (inside the sleep block) and 23:00
ContinuousStarts == {0, TicksPerDay - 3, TicksPerDay - 2}

InitScheduleContinuous ==
    /\ mode = "schedule_continuous"
    /\ tasks \in ContinuousTaskLists
    /\ start_time \in ContinuousStarts
    /\ start_aware \in BOOLEAN
    /\ blocked_arg = <<>>
    /\ \E arg \in IF start_aware THEN AwareDailyArgs \cup NaiveDailyArgs ELSE AwareDailyArgs :
          /\ num_days = arg[1]
          /\ daily_blocks = arg[2]
    /\ Locals0

\* a deadline centuries ahead: further from any start instant than
\* NO_DEADLINE_BASE seconds, also after the halving of an external deadline
FarDeadline == 2 * (NO_DEADLINE_BASE \div Score(1)) + 2 * TicksPerDay

\* schedule_tasks on a task without deadline and a task whose only deadline
\* lies centuries ahead
FarDeadlineTaskLists ==
    UNION {{<<Task(1, 1, d1, None, None, FALSE), Task(2, 2, d2, FarDeadline, None, FALSE)>>,
            <<Task(1, 1, d1, None, None, FALSE), Task(2, 2, d2, None, FarDeadline, FALSE)>>,
            <<Task(1, 1, d1, FarDeadline, None, FALSE), Task(2, 2, d2, None, None, FALSE)>>,
            <<Task(1, 1, d1, None, FarDeadline, FALSE), Task(2, 2, d2, None, None, FALSE)>>}
           : d1 \in Durations, d2 \in Durations}

InitFarDeadline ==
    /\ mode = "schedule_tasks"
    /\ tasks \in FarDeadlineTaskLists
    /\ start_time \in 0..MaxStart
    /\ start_aware = TRUE
    /\ blocked_arg \in {bl \in AwareBlockLists : Len(bl) <= 1}
    /\ num_days = 0
    /\ daily_blocks = <<>>
    /\ Locals0

\* the worked examples: a day starting at 09:00, tasks of one to four hours,
\* deadlines at 11:00, a meeting from 10:00 to 10:30
Hour == 3600 \div TickSeconds
WorkedDurations == {1 * Hour, 2 * Hour, 3 * Hour, 4 * Hour}
WorkedTaskShapes(id) ==
    {Task(id, id, d, None, None, FALSE) : d \in WorkedDurations}
    \cup {Task(id, id, d, 11 * Hour, None, FALSE) : d \in WorkedDurations}
    \cup {Task(id, id, d, None, 11 * Hour, FALSE) : d \in WorkedDurations}
WorkedTaskLists ==
    {<<t>> : t \in WorkedTaskShapes(1)}
    \cup {<<t, u>> : t \in WorkedTaskShapes(1), u \in WorkedTaskShapes(2)}

InitWorkedExamples ==
    /\ mode = "schedule_tasks"
    /\ tasks \in WorkedTaskLists
    /\ start_time \in {9 * Hour, 23 * Hour}
    /\ start_aware = TRUE
    /\ blocked_arg \in {<<>>, <<TimeBlock(10 * Hour, 10 * Hour + Hour \div 2, TRUE)>>}
    /\ num_days = 0
    /\ daily_blocks = <<>>
    /\ Locals0

\* no value of core/models.py is constructed by the caller during a run
ConstructorIdle ==
    /\ ctor_call = <<>>
    /\ ctor_result = "off"

\* no TaskAggregator call is made in a run of the scheduling engine
AggregatorIdle ==
    /\ project_todos = <<>>
    /\ project_label = <<>>
    /\ aggregate_arg = <<>>
    /\ aggregated = <<>>
    /\ task_pool = <<>>
    /\ agg_pc = "off"
    /\ agg_calls = 0

Init ==
    /\ \/ InitScheduleTasks
       \/ InitScheduleTasksNaive
       \/ InitScheduleContinuous
       \/ InitFarDeadline
       \/ InitWorkedExamples
    /\ HalfHourRun
    /\ AggregatorIdle
    /\ ConstructorIdle

\* remaining_work and incomplete_tasks after the for loop of lines 159-162
InitialRemainingWork(task_list) ==
    [id \in {task_list[k].id : k \in {j \in 1..Len(task_list) : ~task_list[j].completed}} |->
        LET last == CHOOSE k \in 1..Len(task_list) :
                        /\ task_list[k].id = id /\ ~task_list[k].completed
                        /\ \A j \in 1..Len(task_list) :
                              (task_list[j].id = id /\ ~task_list[j].completed) => j <= k
        IN  task_list[last].estimated_duration]

IncompleteTasks(task_list) == SelectSeq(task_list, LAMBDA t : ~t.completed)

\* while any(duration > timedelta(0) for duration in remaining_work.values())
AnyRemaining(remaining) == \E id \in DOMAIN remaining : remaining[id] > 0

\* the while loop of _schedule_opportunistically run to its end: the value of
\* segments_by_task when the loop is left
RECURSIVE PlacementLoop(_, _, _, _, _)

\* lines 183-199 of one iteration, then the rest of the loop
PlacementStep(incomplete, remaining, blocked_time, groups, task, placed) ==
    IF placed[1] = <<>> THEN groups
    ELSE PlacementLoop(incomplete,
                       [remaining EXCEPT ![task.id] = @ - (placed[1][2] - placed[1][1])],
                       placed[2], blocked_time,
                       AppendSegment(groups, task, placed[1][1], placed[1][2]))

\* lines 179-199 of one iteration, then the rest of the loop
PlacementSelected(incomplete, remaining, now, blocked_time, groups, task) ==
    IF task = NoTask THEN groups
    ELSE PlacementStep(incomplete, remaining, blocked_time, groups, task,
                       _schedule_task_segment(task, now, blocked_time, remaining[task.id]))

PlacementLoop(incomplete, remaining, now, blocked_time, groups) ==
    IF ~AnyRemaining(remaining) THEN groups
    ELSE PlacementSelected(incomplete, remaining, now, blocked_time, groups,
                           _select_next_task(incomplete, remaining, now, blocked_time))

\* _schedule_opportunistically as a function of its arguments (blocked_time
\* sorted and timezone-aware): [ok, scheduled, conflicts]
_schedule_opportunistically(task_list, start, blocked_time) ==
    _build_scheduled_tasks(PlacementLoop(IncompleteTasks(task_list),
                                         InitialRemainingWork(task_list),
                                         start, blocked_time, <<>>))

Raise(exc) ==
    /\ pc' = "error"
    /\ error' = exc
    /\ UNCHANGED <<sorted_blocks, remaining_work, incomplete_tasks, current_time,
                   segments_by_task, loop_exit, scheduled, conflicts, result>>

\* EnterPlacement without the test on task.completed
EnterPlacement_KeepCompleted(blocks) ==
    /\ sorted_blocks' = blocks
    /\ remaining_work' = [id \in {tasks[k].id : k \in 1..Len(tasks)} |->
                             tasks[CHOOSE k \in 1..Len(tasks) :
                                       /\ tasks[k].id = id
                                       /\ \A j \in 1..Len(tasks) : tasks[j].id = id => j <= k
                                  ].estimated_duration]
    /\ incomplete_tasks' = tasks
    /\ current_time' = start_time
    /\ segments_by_task' = <<>>
    /\ pc' = "loop"
    /\ UNCHANGED <<loop_exit, scheduled, conflicts, result, error>>

\* _schedule_opportunistically, lines 153-167
EnterPlacement(blocks) ==
    /\ sorted_blocks' = blocks
    /\ remaining_work' = InitialRemainingWork(tasks)
    /\ incomplete_tasks' = IncompleteTasks(tasks)
    /\ current_time' = start_time
    /\ segments_by_task' = <<>>
    /\ pc' = "loop"
    /\ UNCHANGED <<loop_exit, scheduled, conflicts, result, error>>

\* schedule_tasks that sorts the caller's list in place (blocked_time.sort)
CallScheduleTasks_SortInPlace ==
    /\ pc = "call" /\ mode = "schedule_tasks"
    /\ IF ~start_aware THEN Raise("ValueError") /\ UNCHANGED blocked_arg
       ELSE IF \E k \in 1..Len(blocked_arg) : ~blocked_arg[k].aware
       THEN Raise("ValueError") /\ UNCHANGED blocked_arg
       ELSE /\ EnterPlacement(StableSortBy(LAMBDA b : b.start, blocked_arg))
            /\ blocked_arg' = StableSortBy(LAMBDA b : b.start, blocked_arg)
    /\ UNCHANGED <<aggregator_vars, constructor_vars>>
    /\ UNCHANGED <<tick_us, mode, tasks, start_time, start_aware, num_days, daily_blocks>>

\* schedule_tasks, lines 36-50
CallScheduleTasks ==
    /\ pc = "call" /\ mode = "schedule_tasks"
    /\ IF ~start_aware THEN Raise("ValueError")
       ELSE IF \E k \in 1..Len(blocked_arg) : ~blocked_arg[k].aware THEN Raise("ValueError")
       ELSE EnterPlacement(StableSortBy(LAMBDA b : b.start, blocked_arg))
    /\ UNCHANGED <<aggregator_vars, constructor_vars>>
    /\ UNCHANGED <<tick_us, mode, tasks, start_time, start_aware, blocked_arg, num_days, daily_blocks>>

\* comparing a naive block boundary with the aware cursor raises TypeError;
\* _find_next_block compares the first block's start first
ComparesNaive(blocked_time) == blocked_time # <<>> /\ ~blocked_time[1].aware

\* sorted(all_blocked_time, key=start) compares starts: TypeError when naive
\* and aware starts are mixed
SortComparesMixed(blocks) ==
    \E i, j \in 1..Len(blocks) : blocks[i].aware # blocks[j].aware

\* schedule_continuous that collects the blocks of the requested days only
CallScheduleContinuous_NoExtraDay ==
    /\ pc = "call" /\ mode = "schedule_continuous"
    /\ LET all_blocked_time == Flatten(SubSeq(daily_blocks, 1, num_days))
       IN  IF ~start_aware THEN Raise("ValueError")
           ELSE IF SortComparesMixed(all_blocked_time) THEN Raise("TypeError")
           ELSE EnterPlacement(StableSortBy(LAMBDA b : b.start, all_blocked_time))
    /\ UNCHANGED <<aggregator_vars, constructor_vars>>
    /\ UNCHANGED <<tick_us, mode, tasks, start_time, start_aware, blocked_arg, num_days, daily_blocks>>

\* schedule_continuous, lines 80-98
CallScheduleContinuous ==
    /\ pc = "call" /\ mode = "schedule_continuous"
    /\ LET all_blocked_time == Flatten(SubSeq(daily_blocks, 1, num_days + 1))
       IN  IF ~start_aware THEN Raise("ValueError")
           ELSE IF SortComparesMixed(all_blocked_time) THEN Raise("TypeError")
           ELSE EnterPlacement(StableSortBy(LAMBDA b : b.start, all_blocked_time))
    /\ UNCHANGED <<aggregator_vars, constructor_vars>>
    /\ UNCHANGED <<tick_us, mode, tasks, start_time, start_aware, blocked_arg, num_days, daily_blocks>>

\* schedule_tasks, lines 52-59
ScheduleTasksResult(sts, confl) ==
    DaySchedule(date(start_time), sts, sorted_blocks, confl)

\* the partition that lists a segment on the day of its end only
ScheduleContinuousResult_ByEndDate(sts, confl) ==
    [day_date \in {date(start_time) + day_offset : day_offset \in 0..(num_days - 1)} |->
        DaySchedule(day_date,
                    SelectSeq(sts, LAMBDA st : day_date = date(st.end)),
                    SelectSeq(sorted_blocks, LAMBDA b : date(b.start) <= day_date
                                                        /\ day_date <= date(b.end)),
                    IF day_date = date(start_time) THEN confl ELSE <<>>)]

\* the partition with the conflicts repeated on every day
ScheduleContinuousResult_ConflictsEveryDay(sts, confl) ==
    [day_date \in {date(start_time) + day_offset : day_offset \in 0..(num_days - 1)} |->
        DaySchedule(day_date,
                    SelectSeq(sts, LAMBDA st : date(st.start) <= day_date
                                               /\ day_date <= date(st.end)),
                    SelectSeq(sorted_blocks, LAMBDA b : date(b.start) <= day_date
                                                        /\ day_date <= date(b.end)),
                    confl)]

\* schedule_continuous, lines 100-132: dict day_date -> DaySchedule
ScheduleContinuousResult(sts, confl) ==
    [day_date \in {date(start_time) + day_offset : day_offset \in 0..(num_days - 1)} |->
        DaySchedule(day_date,
                    SelectSeq(sts, LAMBDA st : date(st.start) <= day_date
                                               /\ day_date <= date(st.end)),
                    SelectSeq(sorted_blocks, LAMBDA b : date(b.start) <= day_date
                                                        /\ day_date <= date(b.end)),
                    IF day_date = date(start_time) THEN confl ELSE <<>>)]

\* the return of the entry point, given the result of _build_scheduled_tasks
Return(built, how) ==
    /\ loop_exit' = how
    /\ IF ~built.ok
       THEN /\ pc' = "error" /\ error' = "ValueError"
            /\ UNCHANGED <<scheduled, conflicts, result>>
       ELSE /\ scheduled' = built.scheduled
            /\ conflicts' = built.conflicts
            /\ result' = IF mode = "schedule_tasks"
                         THEN ScheduleTasksResult(built.scheduled, built.conflicts)
                         ELSE ScheduleContinuousResult(built.scheduled, built.conflicts)
            /\ pc' = "done"
            /\ error' = "none"

\* lines 201-204 and the return of the entry point
Finish(groups, how) == Return(_build_scheduled_tasks(groups), how)

\* lines 185-199: record the segment, decrement the counter, move the cursor
RecordSegment(task_to_schedule, segment, next_time) ==
    /\ segments_by_task' =
           AppendSegment(segments_by_task, task_to_schedule, segment[1], segment[2])
    /\ remaining_work' =
           [remaining_work EXCEPT ![task_to_schedule.id] = @ - (segment[2] - segment[1])]
    /\ current_time' = next_time
    /\ UNCHANGED <<pc, loop_exit, scheduled, conflicts, result, error>>

\* lines 183-199, given the result of _schedule_task_segment
AfterSegment(task_to_schedule, placed) ==
    IF placed[1] = <<>>
    THEN /\ Finish(segments_by_task, "no_segment")
         /\ UNCHANGED <<remaining_work, current_time, segments_by_task>>
    ELSE RecordSegment(task_to_schedule, placed[1], placed[2])

\* lines 174-199, given the result of _select_next_task
AfterSelection(task_to_schedule) ==
    IF task_to_schedule = NoTask
    THEN /\ Finish(segments_by_task, "no_task")
         /\ UNCHANGED <<remaining_work, current_time, segments_by_task>>
    ELSE AfterSegment(task_to_schedule,
                      _schedule_task_segment(task_to_schedule, current_time, sorted_blocks,
                                             remaining_work[task_to_schedule.id]))

\* one iteration of the while loop, lines 170-199
LoopIteration ==
    /\ pc = "loop"
    /\ AnyRemaining(remaining_work)
    /\ IF ComparesNaive(sorted_blocks)
       THEN /\ pc' = "error" /\ error' = "TypeError"
            /\ UNCHANGED <<remaining_work, current_time, segments_by_task,
                           loop_exit, scheduled, conflicts, result>>
       ELSE AfterSelection(_select_next_task(incomplete_tasks, remaining_work,
                                             current_time, sorted_blocks))
    /\ UNCHANGED <<aggregator_vars, constructor_vars>>
    /\ UNCHANGED <<tick_us, mode, tasks, start_time, start_aware, blocked_arg, num_days, daily_blocks,
                   sorted_blocks, incomplete_tasks>>

\* the while condition is false: lines 201-204 and the return
LoopExit ==
    /\ pc = "loop"
    /\ ~AnyRemaining(remaining_work)
    /\ Finish(segments_by_task, "all_done")
    /\ UNCHANGED <<aggregator_vars, constructor_vars>>
    /\ UNCHANGED <<tick_us, mode, tasks, start_time, start_aware, blocked_arg, num_days, daily_blocks,
                   sorted_blocks, remaining_work, incomplete_tasks, current_time,
                   segments_by_task>>

Next == CallScheduleTasks \/ CallScheduleContinuous \/ LoopIteration \/ LoopExit

Spec == Init /\ [][Next]_vars

(***************************************************************************)
(* Runs of schedule_tasks whose durations and blocked intervals are given  *)
(* to the microsecond.                                                     *)
(***************************************************************************)
MaxMicroTasks == 3   \* longest task list of a microsecond run
MaxMicros == 4       \* longest duration and latest block boundary (us)

\* tasks without deadline, one to MaxMicros microseconds long
MicroTaskLists ==
    UNION {[1..n -> 1..MaxMicros] : n \in 1..MaxMicroTasks}

MicroBlocks ==
    UNION {{TimeBlock(b, e, TRUE) : e \in (b + 1)..MaxMicros} : b \in 0..(MaxMicros - 1)}

InitMicroseconds ==
    /\ MicrosecondRun
    /\ mode = "schedule_tasks"
    /\ \E ds \in MicroTaskLists :
          tasks = [k \in 1..Len(ds) |-> Task(k, k, ds[k], None, None, FALSE)]
    /\ start_time = 0
    /\ start_aware = TRUE
    /\ blocked_arg \in {<<>>} \cup {<<b>> : b \in MicroBlocks}
    /\ num_days = 0
    /\ daily_blocks = <<>>
    /\ Locals0

MicroInit == InitMicroseconds /\ AggregatorIdle /\ ConstructorIdle

MicroNext == CallScheduleTasks \/ LoopIteration \/ LoopExit

MicroSpec == MicroInit /\ [][MicroNext]_vars

(***************************************************************************)
(* TaskAggregator (core/aggregation.py).                                   *)
(***************************************************************************)
\* A str is the sequence of the code points of its characters (ord).
\* Python None for Task.project (Optional[str]): the sequence of None alone,
\* which is no code point
NoProject == <<None>>

\* not task.project: None and the empty string are both falsy
Unset(label) == label = NoProject \/ label = <<>>

\* the project names "", "Work" and "home"
ProjectNames == {<<>>, <<87, 111, 114, 107>>, <<104, 111, 109, 101>>}

\* c lies in one of the ranges <<first, last>>
InRanges(c, ranges) == \E k \in 1..Len(ranges) : ranges[k][1] <= c /\ c <= ranges[k][2]

\* The character tables of str.lower, str.isalnum and str.strip are those of
\* the interpreter (CPython 3.11, Unicode 14.0.0), over all code points 0..1114111.

\* the code points c with chr(c).isalnum(), as ranges <<first, last>>
AlnumRanges ==
    <<<<48, 57>>, <<65, 90>>, <<97, 122>>, <<170, 170>>, <<178, 179>>, <<181, 181>>,
      <<185, 186>>, <<188, 190>>, <<192, 214>>, <<216, 246>>, <<248, 705>>, <<710, 721>>,
      <<736, 740>>, <<748, 748>>, <<750, 750>>, <<880, 884>>, <<886, 887>>, <<890, 893>>,
      <<895, 895>>, <<902, 902>>, <<904, 906>>, <<908, 908>>, <<910, 929>>, <<931, 1013>>,
      <<1015, 1153>>, <<1162, 1327>>, <<1329, 1366>>, <<1369, 1369>>, <<1376, 1416>>, <<1488, 1514>>,
      <<1519, 1522>>, <<1568, 1610>>, <<1632, 1641>>, <<1646, 1647>>, <<1649, 1747>>, <<1749, 1749>>,
      <<1765, 1766>>, <<1774, 1788>>, <<1791, 1791>>, <<1808, 1808>>, <<1810, 1839>>, <<1869, 1957>>,
      <<1969, 1969>>, <<1984, 2026>>, <<2036, 2037>>, <<2042, 2042>>, <<2048, 2069>>, <<2074, 2074>>,
      <<2084, 2084>>, <<2088, 2088>>, <<2112, 2136>>, <<2144, 2154>>, <<2160, 2183>>, <<2185, 2190>>,
      <<2208, 2249>>, <<2308, 2361>>, <<2365, 2365>>, <<2384, 2384>>, <<2392, 2401>>, <<2406, 2415>>,
      <<2417, 2432>>, <<2437, 2444>>, <<2447, 2448>>, <<2451, 2472>>, <<2474, 2480>>, <<2482, 2482>>,
      <<2486, 2489>>, <<2493, 2493>>, <<2510, 2510>>, <<2524, 2525>>, <<2527, 2529>>, <<2534, 2545>>,
      <<2548, 2553>>, <<2556, 2556>>, <<2565, 2570>>, <<2575, 2576>>, <<2579, 2600>>, <<2602, 2608>>,
      <<2610, 2611>>, <<2613, 2614>>, <<2616, 2617>>, <<2649, 2652>>, <<2654, 2654>>, <<2662, 2671>>,
      <<2674, 2676>>, <<2693, 2701>>, <<2703, 2705>>, <<2707, 2728>>, <<2730, 2736>>, <<2738, 2739>>,
      <<2741, 2745>>, <<2749, 2749>>, <<2768, 2768>>, <<2784, 2785>>, <<2790, 2799>>, <<2809, 2809>>,
      <<2821, 2828>>, <<2831, 2832>>, <<2835, 2856>>, <<2858, 2864>>, <<2866, 2867>>, <<2869, 2873>>,
      <<2877, 2877>>, <<2908, 2909>>, <<2911, 2913>>, <<2918, 2927>>, <<2929, 2935>>, <<2947, 2947>>,
      <<2949, 2954>>, <<2958, 2960>>, <<2962, 2965>>, <<2969, 2970>>, <<2972, 2972>>, <<2974, 2975>>,
      <<2979, 2980>>, <<2984, 2986>>, <<2990, 3001>>, <<3024, 3024>>, <<3046, 3058>>, <<3077, 3084>>,
      <<3086, 3088>>, <<3090, 3112>>, <<3114, 3129>>, <<3133, 3133>>, <<3160, 3162>>, <<3165, 3165>>,
      <<3168, 3169>>, <<3174, 3183>>, <<3192, 3198>>, <<3200, 3200>>, <<3205, 3212>>, <<3214, 3216>>,
      <<3218, 3240>>, <<3242, 3251>>, <<3253, 3257>>, <<3261, 3261>>, <<3293, 3294>>, <<3296, 3297>>,
      <<3302, 3311>>, <<3313, 3314>>, <<3332, 3340>>, <<3342, 3344>>, <<3346, 3386>>, <<3389, 3389>>,
      <<3406, 3406>>, <<3412, 3414>>, <<3416, 3425>>, <<3430, 3448>>, <<3450, 3455>>, <<3461, 3478>>,
      <<3482, 3505>>, <<3507, 3515>>, <<3517, 3517>>, <<3520, 3526>>, <<3558, 3567>>, <<3585, 3632>>,
      <<3634, 3635>>, <<3648, 3654>>, <<3664, 3673>>, <<3713, 3714>>, <<3716, 3716>>, <<3718, 3722>>,
      <<3724, 3747>>, <<3749, 3749>>, <<3751, 3760>>, <<3762, 3763>>, <<3773, 3773>>, <<3776, 3780>>,
      <<3782, 3782>>, <<3792, 3801>>, <<3804, 3807>>, <<3840, 3840>>, <<3872, 3891>>, <<3904, 3911>>,
      <<3913, 3948>>, <<3976, 3980>>, <<4096, 4138>>, <<4159, 4169>>, <<4176, 4181>>, <<4186, 4189>>,
      <<4193, 4193>>, <<4197, 4198>>, <<4206, 4208>>, <<4213, 4225>>, <<4238, 4238>>, <<4240, 4249>>,
      <<4256, 4293>>, <<4295, 4295>>, <<4301, 4301>>, <<4304, 4346>>, <<4348, 4680>>, <<4682, 4685>>,
      <<4688, 4694>>, <<4696, 4696>>, <<4698, 4701>>, <<4704, 4744>>, <<4746, 4749>>, <<4752, 4784>>,
      <<4786, 4789>>, <<4792, 4798>>, <<4800, 4800>>, <<4802, 4805>>, <<4808, 4822>>, <<4824, 4880>>,
      <<4882, 4885>>, <<4888, 4954>>, <<4969, 4988>>, <<4992, 5007>>, <<5024, 5109>>, <<5112, 5117>>,
      <<5121, 5740>>, <<5743, 5759>>, <<5761, 5786>>, <<5792, 5866>>, <<5870, 5880>>, <<5888, 5905>>,
      <<5919, 5937>>, <<5952, 5969>>, <<5984, 5996>>, <<5998, 6000>>, <<6016, 6067>>, <<6103, 6103>>,
      <<6108, 6108>>, <<6112, 6121>>, <<6128, 6137>>, <<6160, 6169>>, <<6176, 6264>>, <<6272, 6276>>,
      <<6279, 6312>>, <<6314, 6314>>, <<6320, 6389>>, <<6400, 6430>>, <<6470, 6509>>, <<6512, 6516>>,
      <<6528, 6571>>, <<6576, 6601>>, <<6608, 6618>>, <<6656, 6678>>, <<6688, 6740>>, <<6784, 6793>>,
      <<6800, 6809>>, <<6823, 6823>>, <<6917, 6963>>, <<6981, 6988>>, <<6992, 7001>>, <<7043, 7072>>,
      <<7086, 7141>>, <<7168, 7203>>, <<7232, 7241>>, <<7245, 7293>>, <<7296, 7304>>, <<7312, 7354>>,
      <<7357, 7359>>, <<7401, 7404>>, <<7406, 7411>>, <<7413, 7414>>, <<7418, 7418>>, <<7424, 7615>>,
      <<7680, 7957>>, <<7960, 7965>>, <<7968, 8005>>, <<8008, 8013>>, <<8016, 8023>>, <<8025, 8025>>,
      <<8027, 8027>>, <<8029, 8029>>, <<8031, 8061>>, <<8064, 8116>>, <<8118, 8124>>, <<8126, 8126>>,
      <<8130, 8132>>, <<8134, 8140>>, <<8144, 8147>>, <<8150, 8155>>, <<8160, 8172>>, <<8178, 8180>>,
      <<8182, 8188>>, <<8304, 8305>>, <<8308, 8313>>, <<8319, 8329>>, <<8336, 8348>>, <<8450, 8450>>,
      <<8455, 8455>>, <<8458, 8467>>, <<8469, 8469>>, <<8473, 8477>>, <<8484, 8484>>, <<8486, 8486>>,
      <<8488, 8488>>, <<8490, 8493>>, <<8495, 8505>>, <<8508, 8511>>, <<8517, 8521>>, <<8526, 8526>>,
      <<8528, 8585>>, <<9312, 9371>>, <<9450, 9471>>, <<10102, 10131>>, <<11264, 11492>>, <<11499, 11502>>,
      <<11506, 11507>>, <<11517, 11517>>, <<11520, 11557>>, <<11559, 11559>>, <<11565, 11565>>, <<11568, 11623>>,
      <<11631, 11631>>, <<11648, 11670>>, <<11680, 11686>>, <<11688, 11694>>, <<11696, 11702>>, <<11704, 11710>>,
      <<11712, 11718>>, <<11720, 11726>>, <<11728, 11734>>, <<11736, 11742>>, <<11823, 11823>>, <<12293, 12295>>,
      <<12321, 12329>>, <<12337, 12341>>, <<12344, 12348>>, <<12353, 12438>>, <<12445, 12447>>, <<12449, 12538>>,
      <<12540, 12543>>, <<12549, 12591>>, <<12593, 12686>>, <<12690, 12693>>, <<12704, 12735>>, <<12784, 12799>>,
      <<12832, 12841>>, <<12872, 12879>>, <<12881, 12895>>, <<12928, 12937>>, <<12977, 12991>>, <<13312, 19903>>,
      <<19968, 42124>>, <<42192, 42237>>, <<42240, 42508>>, <<42512, 42539>>, <<42560, 42606>>, <<42623, 42653>>,
      <<42656, 42735>>, <<42775, 42783>>, <<42786, 42888>>, <<42891, 42954>>, <<42960, 42961>>, <<42963, 42963>>,
      <<42965, 42969>>, <<42994, 43009>>, <<43011, 43013>>, <<43015, 43018>>, <<43020, 43042>>, <<43056, 43061>>,
      <<43072, 43123>>, <<43138, 43187>>, <<43216, 43225>>, <<43250, 43255>>, <<43259, 43259>>, <<43261, 43262>>,
      <<43264, 43301>>, <<43312, 43334>>, <<43360, 43388>>, <<43396, 43442>>, <<43471, 43481>>, <<43488, 43492>>,
      <<43494, 43518>>, <<43520, 43560>>, <<43584, 43586>>, <<43588, 43595>>, <<43600, 43609>>, <<43616, 43638>>,
      <<43642, 43642>>, <<43646, 43695>>, <<43697, 43697>>, <<43701, 43702>>, <<43705, 43709>>, <<43712, 43712>>,
      <<43714, 43714>>, <<43739, 43741>>, <<43744, 43754>>, <<43762, 43764>>, <<43777, 43782>>, <<43785, 43790>>,
      <<43793, 43798>>, <<43808, 43814>>, <<43816, 43822>>, <<43824, 43866>>, <<43868, 43881>>, <<43888, 44002>>,
      <<44016, 44025>>, <<44032, 55203>>, <<55216, 55238>>, <<55243, 55291>>, <<63744, 64109>>, <<64112, 64217>>,
      <<64256, 64262>>, <<64275, 64279>>, <<64285, 64285>>, <<64287, 64296>>, <<64298, 64310>>, <<64312, 64316>>,
      <<64318, 64318>>, <<64320, 64321>>, <<64323, 64324>>, <<64326, 64433>>, <<64467, 64829>>, <<64848, 64911>>,
      <<64914, 64967>>, <<65008, 65019>>, <<65136, 65140>>, <<65142, 65276>>, <<65296, 65305>>, <<65313, 65338>>,
      <<65345, 65370>>, <<65382, 65470>>, <<65474, 65479>>, <<65482, 65487>>, <<65490, 65495>>, <<65498, 65500>>,
      <<65536, 65547>>, <<65549, 65574>>, <<65576, 65594>>, <<65596, 65597>>, <<65599, 65613>>, <<65616, 65629>>,
      <<65664, 65786>>, <<65799, 65843>>, <<65856, 65912>>, <<65930, 65931>>, <<66176, 66204>>, <<66208, 66256>>,
      <<66273, 66299>>, <<66304, 66339>>, <<66349, 66378>>, <<66384, 66421>>, <<66432, 66461>>, <<66464, 66499>>,
      <<66504, 66511>>, <<66513, 66517>>, <<66560, 66717>>, <<66720, 66729>>, <<66736, 66771>>, <<66776, 66811>>,
      <<66816, 66855>>, <<66864, 66915>>, <<66928, 66938>>, <<66940, 66954>>, <<66956, 66962>>, <<66964, 66965>>,
      <<66967, 66977>>, <<66979, 66993>>, <<66995, 67001>>, <<67003, 67004>>, <<67072, 67382>>, <<67392, 67413>>,
      <<67424, 67431>>, <<67456, 67461>>, <<67463, 67504>>, <<67506, 67514>>, <<67584, 67589>>, <<67592, 67592>>,
      <<67594, 67637>>, <<67639, 67640>>, <<67644, 67644>>, <<67647, 67669>>, <<67672, 67702>>, <<67705, 67742>>,
      <<67751, 67759>>, <<67808, 67826>>, <<67828, 67829>>, <<67835, 67867>>, <<67872, 67897>>, <<67968, 68023>>,
      <<68028, 68047>>, <<68050, 68096>>, <<68112, 68115>>, <<68117, 68119>>, <<68121, 68149>>, <<68160, 68168>>,
      <<68192, 68222>>, <<68224, 68255>>, <<68288, 68295>>, <<68297, 68324>>, <<68331, 68335>>, <<68352, 68405>>,
      <<68416, 68437>>, <<68440, 68466>>, <<68472, 68497>>, <<68521, 68527>>, <<68608, 68680>>, <<68736, 68786>>,
      <<68800, 68850>>, <<68858, 68899>>, <<68912, 68921>>, <<69216, 69246>>, <<69248, 69289>>, <<69296, 69297>>,
      <<69376, 69415>>, <<69424, 69445>>, <<69457, 69460>>, <<69488, 69505>>, <<69552, 69579>>, <<69600, 69622>>,
      <<69635, 69687>>, <<69714, 69743>>, <<69745, 69746>>, <<69749, 69749>>, <<69763, 69807>>, <<69840, 69864>>,
      <<69872, 69881>>, <<69891, 69926>>, <<69942, 69951>>, <<69956, 69956>>, <<69959, 69959>>, <<69968, 70002>>,
      <<70006, 70006>>, <<70019, 70066>>, <<70081, 70084>>, <<70096, 70106>>, <<70108, 70108>>, <<70113, 70132>>,
      <<70144, 70161>>, <<70163, 70187>>, <<70272, 70278>>, <<70280, 70280>>, <<70282, 70285>>, <<70287, 70301>>,
      <<70303, 70312>>, <<70320, 70366>>, <<70384, 70393>>, <<70405, 70412>>, <<70415, 70416>>, <<70419, 70440>>,
      <<70442, 70448>>, <<70450, 70451>>, <<70453, 70457>>, <<70461, 70461>>, <<70480, 70480>>, <<70493, 70497>>,
      <<70656, 70708>>, <<70727, 70730>>, <<70736, 70745>>, <<70751, 70753>>, <<70784, 70831>>, <<70852, 70853>>,
      <<70855, 70855>>, <<70864, 70873>>, <<71040, 71086>>, <<71128, 71131>>, <<71168, 71215>>, <<71236, 71236>>,
      <<71248, 71257>>, <<71296, 71338>>, <<71352, 71352>>, <<71360, 71369>>, <<71424, 71450>>, <<71472, 71483>>,
      <<71488, 71494>>, <<71680, 71723>>, <<71840, 71922>>, <<71935, 71942>>, <<71945, 71945>>, <<71948, 71955>>,
      <<71957, 71958>>, <<71960, 71983>>, <<71999, 71999>>, <<72001, 72001>>, <<72016, 72025>>, <<72096, 72103>>,
      <<72106, 72144>>, <<72161, 72161>>, <<72163, 72163>>, <<72192, 72192>>, <<72203, 72242>>, <<72250, 72250>>,
      <<72272, 72272>>, <<72284, 72329>>, <<72349, 72349>>, <<72368, 72440>>, <<72704, 72712>>, <<72714, 72750>>,
      <<72768, 72768>>, <<72784, 72812>>, <<72818, 72847>>, <<72960, 72966>>, <<72968, 72969>>, <<72971, 73008>>,
      <<73030, 73030>>, <<73040, 73049>>, <<73056, 73061>>, <<73063, 73064>>, <<73066, 73097>>, <<73112, 73112>>,
      <<73120, 73129>>, <<73440, 73458>>, <<73648, 73648>>, <<73664, 73684>>, <<73728, 74649>>, <<74752, 74862>>,
      <<74880, 75075>>, <<77712, 77808>>, <<77824, 78894>>, <<82944, 83526>>, <<92160, 92728>>, <<92736, 92766>>,
      <<92768, 92777>>, <<92784, 92862>>, <<92864, 92873>>, <<92880, 92909>>, <<92928, 92975>>, <<92992, 92995>>,
      <<93008, 93017>>, <<93019, 93025>>, <<93027, 93047>>, <<93053, 93071>>, <<93760, 93846>>, <<93952, 94026>>,
      <<94032, 94032>>, <<94099, 94111>>, <<94176, 94177>>, <<94179, 94179>>, <<94208, 100343>>, <<100352, 101589>>,
      <<101632, 101640>>, <<110576, 110579>>, <<110581, 110587>>, <<110589, 110590>>, <<110592, 110882>>, <<110928, 110930>>,
      <<110948, 110951>>, <<110960, 111355>>, <<113664, 113770>>, <<113776, 113788>>, <<113792, 113800>>, <<113808, 113817>>,
      <<119520, 119539>>, <<119648, 119672>>, <<119808, 119892>>, <<119894, 119964>>, <<119966, 119967>>, <<119970, 119970>>,
      <<119973, 119974>>, <<119977, 119980>>, <<119982, 119993>>, <<119995, 119995>>, <<119997, 120003>>, <<120005, 120069>>,
      <<120071, 120074>>, <<120077, 120084>>, <<120086, 120092>>, <<120094, 120121>>, <<120123, 120126>>, <<120128, 120132>>,
      <<120134, 120134>>, <<120138, 120144>>, <<120146, 120485>>, <<120488, 120512>>, <<120514, 120538>>, <<120540, 120570>>,
      <<120572, 120596>>, <<120598, 120628>>, <<120630, 120654>>, <<120656, 120686>>, <<120688, 120712>>, <<120714, 120744>>,
      <<120746, 120770>>, <<120772, 120779>>, <<120782, 120831>>, <<122624, 122654>>, <<123136, 123180>>, <<123191, 123197>>,
      <<123200, 123209>>, <<123214, 123214>>, <<123536, 123565>>, <<123584, 123627>>, <<123632, 123641>>, <<124896, 124902>>,
      <<124904, 124907>>, <<124909, 124910>>, <<124912, 124926>>, <<124928, 125124>>, <<125127, 125135>>, <<125184, 125251>>,
      <<125259, 125259>>, <<125264, 125273>>, <<126065, 126123>>, <<126125, 126127>>, <<126129, 126132>>, <<126209, 126253>>,
      <<126255, 126269>>, <<126464, 126467>>, <<126469, 126495>>, <<126497, 126498>>, <<126500, 126500>>, <<126503, 126503>>,
      <<126505, 126514>>, <<126516, 126519>>, <<126521, 126521>>, <<126523, 126523>>, <<126530, 126530>>, <<126535, 126535>>,
      <<126537, 126537>>, <<126539, 126539>>, <<126541, 126543>>, <<126545, 126546>>, <<126548, 126548>>, <<126551, 126551>>,
      <<126553, 126553>>, <<126555, 126555>>, <<126557, 126557>>, <<126559, 126559>>, <<126561, 126562>>, <<126564, 126564>>,
      <<126567, 126570>>, <<126572, 126578>>, <<126580, 126583>>, <<126585, 126588>>, <<126590, 126590>>, <<126592, 126601>>,
      <<126603, 126619>>, <<126625, 126627>>, <<126629, 126633>>, <<126635, 126651>>, <<127232, 127244>>, <<130032, 130041>>,
      <<131072, 173791>>, <<173824, 177976>>, <<177984, 178205>>, <<178208, 183969>>, <<183984, 191456>>, <<194560, 195101>>,
      <<196608, 201546>>>>

\* the code points str.strip() removes (those with chr(c).isspace())
Whitespace ==
    {9, 10, 11, 12, 13, 28, 29, 30, 31, 32, 133, 160, 5760, 8192, 8193, 8194, 8195, 8196, 8197, 8198, 8199, 8200, 8201, 8202, 8232, 8233, 8239, 8287, 12288}

\* the one-character lower-case mappings, as runs <<first, last, step, delta>>:
\* every step-th code point c of first..last has lower case c + delta
LowerRuns ==
    <<<<65, 90, 1, 32>>, <<192, 214, 1, 32>>, <<216, 222, 1, 32>>, <<256, 302, 2, 1>>,
      <<306, 310, 2, 1>>, <<313, 327, 2, 1>>, <<330, 374, 2, 1>>, <<376, 376, 1, -121>>,
      <<377, 381, 2, 1>>, <<385, 385, 1, 210>>, <<386, 388, 2, 1>>, <<390, 390, 1, 206>>,
      <<391, 391, 1, 1>>, <<393, 394, 1, 205>>, <<395, 395, 1, 1>>, <<398, 398, 1, 79>>,
      <<399, 399, 1, 202>>, <<400, 400, 1, 203>>, <<401, 401, 1, 1>>, <<403, 403, 1, 205>>,
      <<404, 404, 1, 207>>, <<406, 406, 1, 211>>, <<407, 407, 1, 209>>, <<408, 408, 1, 1>>,
      <<412, 412, 1, 211>>, <<413, 413, 1, 213>>, <<415, 415, 1, 214>>, <<416, 420, 2, 1>>,
      <<422, 422, 1, 218>>, <<423, 423, 1, 1>>, <<425, 425, 1, 218>>, <<428, 428, 1, 1>>,
      <<430, 430, 1, 218>>, <<431, 431, 1, 1>>, <<433, 434, 1, 217>>, <<435, 437, 2, 1>>,
      <<439, 439, 1, 219>>, <<440, 440, 1, 1>>, <<444, 444, 1, 1>>, <<452, 452, 1, 2>>,
      <<453, 453, 1, 1>>, <<455, 455, 1, 2>>, <<456, 456, 1, 1>>, <<458, 458, 1, 2>>,
      <<459, 475, 2, 1>>, <<478, 494, 2, 1>>, <<497, 497, 1, 2>>, <<498, 500, 2, 1>>,
      <<502, 502, 1, -97>>, <<503, 503, 1, -56>>, <<504, 542, 2, 1>>, <<544, 544, 1, -130>>,
      <<546, 562, 2, 1>>, <<570, 570, 1, 10795>>, <<571, 571, 1, 1>>, <<573, 573, 1, -163>>,
      <<574, 574, 1, 10792>>, <<577, 577, 1, 1>>, <<579, 579, 1, -195>>, <<580, 580, 1, 69>>,
      <<581, 581, 1, 71>>, <<582, 590, 2, 1>>, <<880, 882, 2, 1>>, <<886, 886, 1, 1>>,
      <<895, 895, 1, 116>>, <<902, 902, 1, 38>>, <<904, 906, 1, 37>>, <<908, 908, 1, 64>>,
      <<910, 911, 1, 63>>, <<913, 929, 1, 32>>, <<931, 939, 1, 32>>, <<975, 975, 1, 8>>,
      <<984, 1006, 2, 1>>, <<1012, 1012, 1, -60>>, <<1015, 1015, 1, 1>>, <<1017, 1017, 1, -7>>,
      <<1018, 1018, 1, 1>>, <<1021, 1023, 1, -130>>, <<1024, 1039, 1, 80>>, <<1040, 1071, 1, 32>>,
      <<1120, 1152, 2, 1>>, <<1162, 1214, 2, 1>>, <<1216, 1216, 1, 15>>, <<1217, 1229, 2, 1>>,
      <<1232, 1326, 2, 1>>, <<1329, 1366, 1, 48>>, <<4256, 4293, 1, 7264>>, <<4295, 4295, 1, 7264>>,
      <<4301, 4301, 1, 7264>>, <<5024, 5103, 1, 38864>>, <<5104, 5109, 1, 8>>, <<7312, 7354, 1, -3008>>,
      <<7357, 7359, 1, -3008>>, <<7680, 7828, 2, 1>>, <<7838, 7838, 1, -7615>>, <<7840, 7934, 2, 1>>,
      <<7944, 7951, 1, -8>>, <<7960, 7965, 1, -8>>, <<7976, 7983, 1, -8>>, <<7992, 7999, 1, -8>>,
      <<8008, 8013, 1, -8>>, <<8025, 8031, 2, -8>>, <<8040, 8047, 1, -8>>, <<8072, 8079, 1, -8>>,
      <<8088, 8095, 1, -8>>, <<8104, 8111, 1, -8>>, <<8120, 8121, 1, -8>>, <<8122, 8123, 1, -74>>,
      <<8124, 8124, 1, -9>>, <<8136, 8139, 1, -86>>, <<8140, 8140, 1, -9>>, <<8152, 8153, 1, -8>>,
      <<8154, 8155, 1, -100>>, <<8168, 8169, 1, -8>>, <<8170, 8171, 1, -112>>, <<8172, 8172, 1, -7>>,
      <<8184, 8185, 1, -128>>, <<8186, 8187, 1, -126>>, <<8188, 8188, 1, -9>>, <<8486, 8486, 1, -7517>>,
      <<8490, 8490, 1, -8383>>, <<8491, 8491, 1, -8262>>, <<8498, 8498, 1, 28>>, <<8544, 8559, 1, 16>>,
      <<8579, 8579, 1, 1>>, <<9398, 9423, 1, 26>>, <<11264, 11311, 1, 48>>, <<11360, 11360, 1, 1>>,
      <<11362, 11362, 1, -10743>>, <<11363, 11363, 1, -3814>>, <<11364, 11364, 1, -10727>>, <<11367, 11371, 2, 1>>,
      <<11373, 11373, 1, -10780>>, <<11374, 11374, 1, -10749>>, <<11375, 11375, 1, -10783>>, <<11376, 11376, 1, -10782>>,
      <<11378, 11378, 1, 1>>, <<11381, 11381, 1, 1>>, <<11390, 11391, 1, -10815>>, <<11392, 11490, 2, 1>>,
      <<11499, 11501, 2, 1>>, <<11506, 11506, 1, 1>>, <<42560, 42604, 2, 1>>, <<42624, 42650, 2, 1>>,
      <<42786, 42798, 2, 1>>, <<42802, 42862, 2, 1>>, <<42873, 42875, 2, 1>>, <<42877, 42877, 1, -35332>>,
      <<42878, 42886, 2, 1>>, <<42891, 42891, 1, 1>>, <<42893, 42893, 1, -42280>>, <<42896, 42898, 2, 1>>,
      <<42902, 42920, 2, 1>>, <<42922, 42922, 1, -42308>>, <<42923, 42923, 1, -42319>>, <<42924, 42924, 1, -42315>>,
      <<42925, 42925, 1, -42305>>, <<42926, 42926, 1, -42308>>, <<42928, 42928, 1, -42258>>, <<42929, 42929, 1, -42282>>,
      <<42930, 42930, 1, -42261>>, <<42931, 42931, 1, 928>>, <<42932, 42946, 2, 1>>, <<42948, 42948, 1, -48>>,
      <<42949, 42949, 1, -42307>>, <<42950, 42950, 1, -35384>>, <<42951, 42953, 2, 1>>, <<42960, 42960, 1, 1>>,
      <<42966, 42968, 2, 1>>, <<42997, 42997, 1, 1>>, <<65313, 65338, 1, 32>>, <<66560, 66599, 1, 40>>,
      <<66736, 66771, 1, 40>>, <<66928, 66938, 1, 39>>, <<66940, 66954, 1, 39>>, <<66956, 66962, 1, 39>>,
      <<66964, 66965, 1, 39>>, <<68736, 68786, 1, 64>>, <<71840, 71871, 1, 32>>, <<93760, 93791, 1, 32>>,
      <<125184, 125217, 1, 34>>>>

\* the code points with the Unicode property Cased, as ranges <<first, last>>
CasedRanges ==
    <<<<65, 90>>, <<97, 122>>, <<170, 170>>, <<181, 181>>, <<186, 186>>, <<192, 214>>,
      <<216, 246>>, <<248, 442>>, <<444, 447>>, <<452, 659>>, <<661, 696>>, <<704, 705>>,
      <<736, 740>>, <<837, 837>>, <<880, 883>>, <<886, 887>>, <<890, 893>>, <<895, 895>>,
      <<902, 902>>, <<904, 906>>, <<908, 908>>, <<910, 929>>, <<931, 1013>>, <<1015, 1153>>,
      <<1162, 1327>>, <<1329, 1366>>, <<1376, 1416>>, <<4256, 4293>>, <<4295, 4295>>, <<4301, 4301>>,
      <<4304, 4346>>, <<4349, 4351>>, <<5024, 5109>>, <<5112, 5117>>, <<7296, 7304>>, <<7312, 7354>>,
      <<7357, 7359>>, <<7424, 7615>>, <<7680, 7957>>, <<7960, 7965>>, <<7968, 8005>>, <<8008, 8013>>,
      <<8016, 8023>>, <<8025, 8025>>, <<8027, 8027>>, <<8029, 8029>>, <<8031, 8061>>, <<8064, 8116>>,
      <<8118, 8124>>, <<8126, 8126>>, <<8130, 8132>>, <<8134, 8140>>, <<8144, 8147>>, <<8150, 8155>>,
      <<8160, 8172>>, <<8178, 8180>>, <<8182, 8188>>, <<8305, 8305>>, <<8319, 8319>>, <<8336, 8348>>,
      <<8450, 8450>>, <<8455, 8455>>, <<8458, 8467>>, <<8469, 8469>>, <<8473, 8477>>, <<8484, 8484>>,
      <<8486, 8486>>, <<8488, 8488>>, <<8490, 8493>>, <<8495, 8500>>, <<8505, 8505>>, <<8508, 8511>>,
      <<8517, 8521>>, <<8526, 8526>>, <<8544, 8575>>, <<8579, 8580>>, <<9398, 9449>>, <<11264, 11492>>,
      <<11499, 11502>>, <<11506, 11507>>, <<11520, 11557>>, <<11559, 11559>>, <<11565, 11565>>, <<42560, 42605>>,
      <<42624, 42653>>, <<42786, 42887>>, <<42891, 42894>>, <<42896, 42954>>, <<42960, 42961>>, <<42963, 42963>>,
      <<42965, 42969>>, <<42997, 42998>>, <<43000, 43002>>, <<43824, 43866>>, <<43868, 43880>>, <<43888, 43967>>,
      <<64256, 64262>>, <<64275, 64279>>, <<65313, 65338>>, <<65345, 65370>>, <<66560, 66639>>, <<66736, 66771>>,
      <<66776, 66811>>, <<66928, 66938>>, <<66940, 66954>>, <<66956, 66962>>, <<66964, 66965>>, <<66967, 66977>>,
      <<66979, 66993>>, <<66995, 67001>>, <<67003, 67004>>, <<67456, 67456>>, <<67459, 67461>>, <<67463, 67504>>,
      <<67506, 67514>>, <<68736, 68786>>, <<68800, 68850>>, <<71840, 71903>>, <<93760, 93823>>, <<119808, 119892>>,
      <<119894, 119964>>, <<119966, 119967>>, <<119970, 119970>>, <<119973, 119974>>, <<119977, 119980>>, <<119982, 119993>>,
      <<119995, 119995>>, <<119997, 120003>>, <<120005, 120069>>, <<120071, 120074>>, <<120077, 120084>>, <<120086, 120092>>,
      <<120094, 120121>>, <<120123, 120126>>, <<120128, 120132>>, <<120134, 120134>>, <<120138, 120144>>, <<120146, 120485>>,
      <<120488, 120512>>, <<120514, 120538>>, <<120540, 120570>>, <<120572, 120596>>, <<120598, 120628>>, <<120630, 120654>>,
      <<120656, 120686>>, <<120688, 120712>>, <<120714, 120744>>, <<120746, 120770>>, <<120772, 120779>>, <<122624, 122633>>,
      <<122635, 122654>>, <<125184, 125251>>, <<127280, 127305>>, <<127312, 127337>>, <<127344, 127369>>>>

\* the code points with the Unicode property Case_Ignorable
CaseIgnorableRanges ==
    <<<<39, 39>>, <<46, 46>>, <<58, 58>>, <<94, 94>>, <<96, 96>>, <<168, 168>>,
      <<173, 173>>, <<175, 175>>, <<180, 180>>, <<183, 184>>, <<688, 879>>, <<884, 885>>,
      <<890, 890>>, <<900, 901>>, <<903, 903>>, <<1155, 1161>>, <<1369, 1369>>, <<1375, 1375>>,
      <<1425, 1469>>, <<1471, 1471>>, <<1473, 1474>>, <<1476, 1477>>, <<1479, 1479>>, <<1524, 1524>>,
      <<1536, 1541>>, <<1552, 1562>>, <<1564, 1564>>, <<1600, 1600>>, <<1611, 1631>>, <<1648, 1648>>,
      <<1750, 1757>>, <<1759, 1768>>, <<1770, 1773>>, <<1807, 1807>>, <<1809, 1809>>, <<1840, 1866>>,
      <<1958, 1968>>, <<2027, 2037>>, <<2042, 2042>>, <<2045, 2045>>, <<2070, 2093>>, <<2137, 2139>>,
      <<2184, 2184>>, <<2192, 2193>>, <<2200, 2207>>, <<2249, 2306>>, <<2362, 2362>>, <<2364, 2364>>,
      <<2369, 2376>>, <<2381, 2381>>, <<2385, 2391>>, <<2402, 2403>>, <<2417, 2417>>, <<2433, 2433>>,
      <<2492, 2492>>, <<2497, 2500>>, <<2509, 2509>>, <<2530, 2531>>, <<2558, 2558>>, <<2561, 2562>>,
      <<2620, 2620>>, <<2625, 2626>>, <<2631, 2632>>, <<2635, 2637>>, <<2641, 2641>>, <<2672, 2673>>,
      <<2677, 2677>>, <<2689, 2690>>, <<2748, 2748>>, <<2753, 2757>>, <<2759, 2760>>, <<2765, 2765>>,
      <<2786, 2787>>, <<2810, 2815>>, <<2817, 2817>>, <<2876, 2876>>, <<2879, 2879>>, <<2881, 2884>>,
      <<2893, 2893>>, <<2901, 2902>>, <<2914, 2915>>, <<2946, 2946>>, <<3008, 3008>>, <<3021, 3021>>,
      <<3072, 3072>>, <<3076, 3076>>, <<3132, 3132>>, <<3134, 3136>>, <<3142, 3144>>, <<3146, 3149>>,
      <<3157, 3158>>, <<3170, 3171>>, <<3201, 3201>>, <<3260, 3260>>, <<3263, 3263>>, <<3270, 3270>>,
      <<3276, 3277>>, <<3298, 3299>>, <<3328, 3329>>, <<3387, 3388>>, <<3393, 3396>>, <<3405, 3405>>,
      <<3426, 3427>>, <<3457, 3457>>, <<3530, 3530>>, <<3538, 3540>>, <<3542, 3542>>, <<3633, 3633>>,
      <<3636, 3642>>, <<3654, 3662>>, <<3761, 3761>>, <<3764, 3772>>, <<3782, 3782>>, <<3784, 3789>>,
      <<3864, 3865>>, <<3893, 3893>>, <<3895, 3895>>, <<3897, 3897>>, <<3953, 3966>>, <<3968, 3972>>,
      <<3974, 3975>>, <<3981, 3991>>, <<3993, 4028>>, <<4038, 4038>>, <<4141, 4144>>, <<4146, 4151>>,
      <<4153, 4154>>, <<4157, 4158>>, <<4184, 4185>>, <<4190, 4192>>, <<4209, 4212>>, <<4226, 4226>>,
      <<4229, 4230>>, <<4237, 4237>>, <<4253, 4253>>, <<4348, 4348>>, <<4957, 4959>>, <<5906, 5908>>,
      <<5938, 5939>>, <<5970, 5971>>, <<6002, 6003>>, <<6068, 6069>>, <<6071, 6077>>, <<6086, 6086>>,
      <<6089, 6099>>, <<6103, 6103>>, <<6109, 6109>>, <<6155, 6159>>, <<6211, 6211>>, <<6277, 6278>>,
      <<6313, 6313>>, <<6432, 6434>>, <<6439, 6440>>, <<6450, 6450>>, <<6457, 6459>>, <<6679, 6680>>,
      <<6683, 6683>>, <<6742, 6742>>, <<6744, 6750>>, <<6752, 6752>>, <<6754, 6754>>, <<6757, 6764>>,
      <<6771, 6780>>, <<6783, 6783>>, <<6823, 6823>>, <<6832, 6862>>, <<6912, 6915>>, <<6964, 6964>>,
      <<6966, 6970>>, <<6972, 6972>>, <<6978, 6978>>, <<7019, 7027>>, <<7040, 7041>>, <<7074, 7077>>,
      <<7080, 7081>>, <<7083, 7085>>, <<7142, 7142>>, <<7144, 7145>>, <<7149, 7149>>, <<7151, 7153>>,
      <<7212, 7219>>, <<7222, 7223>>, <<7288, 7293>>, <<7376, 7378>>, <<7380, 7392>>, <<7394, 7400>>,
      <<7405, 7405>>, <<7412, 7412>>, <<7416, 7417>>, <<7468, 7530>>, <<7544, 7544>>, <<7579, 7679>>,
      <<8125, 8125>>, <<8127, 8129>>, <<8141, 8143>>, <<8157, 8159>>, <<8173, 8175>>, <<8189, 8190>>,
      <<8203, 8207>>, <<8216, 8217>>, <<8228, 8228>>, <<8231, 8231>>, <<8234, 8238>>, <<8288, 8292>>,
      <<8294, 8303>>, <<8305, 8305>>, <<8319, 8319>>, <<8336, 8348>>, <<8400, 8432>>, <<11388, 11389>>,
      <<11503, 11505>>, <<11631, 11631>>, <<11647, 11647>>, <<11744, 11775>>, <<11823, 11823>>, <<12293, 12293>>,
      <<12330, 12333>>, <<12337, 12341>>, <<12347, 12347>>, <<12441, 12446>>, <<12540, 12542>>, <<40981, 40981>>,
      <<42232, 42237>>, <<42508, 42508>>, <<42607, 42610>>, <<42612, 42621>>, <<42623, 42623>>, <<42652, 42655>>,
      <<42736, 42737>>, <<42752, 42785>>, <<42864, 42864>>, <<42888, 42890>>, <<42994, 42996>>, <<43000, 43001>>,
      <<43010, 43010>>, <<43014, 43014>>, <<43019, 43019>>, <<43045, 43046>>, <<43052, 43052>>, <<43204, 43205>>,
      <<43232, 43249>>, <<43263, 43263>>, <<43302, 43309>>, <<43335, 43345>>, <<43392, 43394>>, <<43443, 43443>>,
      <<43446, 43449>>, <<43452, 43453>>, <<43471, 43471>>, <<43493, 43494>>, <<43561, 43566>>, <<43569, 43570>>,
      <<43573, 43574>>, <<43587, 43587>>, <<43596, 43596>>, <<43632, 43632>>, <<43644, 43644>>, <<43696, 43696>>,
      <<43698, 43700>>, <<43703, 43704>>, <<43710, 43711>>, <<43713, 43713>>, <<43741, 43741>>, <<43756, 43757>>,
      <<43763, 43764>>, <<43766, 43766>>, <<43867, 43871>>, <<43881, 43883>>, <<44005, 44005>>, <<44008, 44008>>,
      <<44013, 44013>>, <<64286, 64286>>, <<64434, 64450>>, <<65024, 65039>>, <<65043, 65043>>, <<65056, 65071>>,
      <<65106, 65106>>, <<65109, 65109>>, <<65279, 65279>>, <<65287, 65287>>, <<65294, 65294>>, <<65306, 65306>>,
      <<65342, 65342>>, <<65344, 65344>>, <<65392, 65392>>, <<65438, 65439>>, <<65507, 65507>>, <<65529, 65531>>,
      <<66045, 66045>>, <<66272, 66272>>, <<66422, 66426>>, <<67456, 67461>>, <<67463, 67504>>, <<67506, 67514>>,
      <<68097, 68099>>, <<68101, 68102>>, <<68108, 68111>>, <<68152, 68154>>, <<68159, 68159>>, <<68325, 68326>>,
      <<68900, 68903>>, <<69291, 69292>>, <<69446, 69456>>, <<69506, 69509>>, <<69633, 69633>>, <<69688, 69702>>,
      <<69744, 69744>>, <<69747, 69748>>, <<69759, 69761>>, <<69811, 69814>>, <<69817, 69818>>, <<69821, 69821>>,
      <<69826, 69826>>, <<69837, 69837>>, <<69888, 69890>>, <<69927, 69931>>, <<69933, 69940>>, <<70003, 70003>>,
      <<70016, 70017>>, <<70070, 70078>>, <<70089, 70092>>, <<70095, 70095>>, <<70191, 70193>>, <<70196, 70196>>,
      <<70198, 70199>>, <<70206, 70206>>, <<70367, 70367>>, <<70371, 70378>>, <<70400, 70401>>, <<70459, 70460>>,
      <<70464, 70464>>, <<70502, 70508>>, <<70512, 70516>>, <<70712, 70719>>, <<70722, 70724>>, <<70726, 70726>>,
      <<70750, 70750>>, <<70835, 70840>>, <<70842, 70842>>, <<70847, 70848>>, <<70850, 70851>>, <<71090, 71093>>,
      <<71100, 71101>>, <<71103, 71104>>, <<71132, 71133>>, <<71219, 71226>>, <<71229, 71229>>, <<71231, 71232>>,
      <<71339, 71339>>, <<71341, 71341>>, <<71344, 71349>>, <<71351, 71351>>, <<71453, 71455>>, <<71458, 71461>>,
      <<71463, 71467>>, <<71727, 71735>>, <<71737, 71738>>, <<71995, 71996>>, <<71998, 71998>>, <<72003, 72003>>,
      <<72148, 72151>>, <<72154, 72155>>, <<72160, 72160>>, <<72193, 72202>>, <<72243, 72248>>, <<72251, 72254>>,
      <<72263, 72263>>, <<72273, 72278>>, <<72281, 72283>>, <<72330, 72342>>, <<72344, 72345>>, <<72752, 72758>>,
      <<72760, 72765>>, <<72767, 72767>>, <<72850, 72871>>, <<72874, 72880>>, <<72882, 72883>>, <<72885, 72886>>,
      <<73009, 73014>>, <<73018, 73018>>, <<73020, 73021>>, <<73023, 73029>>, <<73031, 73031>>, <<73104, 73105>>,
      <<73109, 73109>>, <<73111, 73111>>, <<73459, 73460>>, <<78896, 78904>>, <<92912, 92916>>, <<92976, 92982>>,
      <<92992, 92995>>, <<94031, 94031>>, <<94095, 94111>>, <<94176, 94177>>, <<94179, 94180>>, <<110576, 110579>>,
      <<110581, 110587>>, <<110589, 110590>>, <<113821, 113822>>, <<113824, 113827>>, <<118528, 118573>>, <<118576, 118598>>,
      <<119143, 119145>>, <<119155, 119170>>, <<119173, 119179>>, <<119210, 119213>>, <<119362, 119364>>, <<121344, 121398>>,
      <<121403, 121452>>, <<121461, 121461>>, <<121476, 121476>>, <<121499, 121503>>, <<121505, 121519>>, <<122880, 122886>>,
      <<122888, 122904>>, <<122907, 122913>>, <<122915, 122916>>, <<122918, 122922>>, <<123184, 123197>>, <<123566, 123566>>,
      <<123628, 123631>>, <<125136, 125142>>, <<125252, 125259>>, <<127995, 127999>>, <<917505, 917505>>, <<917536, 917631>>,
      <<917760, 917999>>>>

CapitalSigma == 931               \* U+03A3
FinalSmallSigma == 962            \* U+03C2
SmallSigma == 963                 \* U+03C3
CapitalIWithDot == 304            \* U+0130
Hyphen == 45                      \* "-"
Underscore == 95                  \* "_"

\* c.isalnum()
isalnum(c) == InRanges(c, AlnumRanges)

\* c.lower() of one character that stands alone: a str of one character, or
\* of two for U+0130 ("i" and U+0307)
lower_char(c) ==
    IF c = CapitalIWithDot THEN <<105, 775>>
    ELSE IF \E k \in 1..Len(LowerRuns) :
                /\ LowerRuns[k][1] <= c /\ c <= LowerRuns[k][2]
                /\ (c - LowerRuns[k][1]) % LowerRuns[k][3] = 0
         THEN LET k == CHOOSE k \in 1..Len(LowerRuns) :
                          /\ LowerRuns[k][1] <= c /\ c <= LowerRuns[k][2]
                          /\ (c - LowerRuns[k][1]) % LowerRuns[k][3] = 0
              IN  <<c + LowerRuns[k][4]>>
         ELSE <<c>>

\* the lower case of the capital sigma at position i: the final form when a
\* cased character stands before it and none after it, case-ignorable
\* characters skipped on both sides
final_sigma(name, i) ==
    LET before == {j \in 1..(i - 1) : ~InRanges(name[j], CaseIgnorableRanges)}
        after == {j \in (i + 1)..Len(name) : ~InRanges(name[j], CaseIgnorableRanges)}
    IN  IF /\ before # {}
           /\ InRanges(name[CHOOSE j \in before : \A h \in before : h <= j], CasedRanges)
           /\ \/ after = {}
              \/ ~InRanges(name[CHOOSE j \in after : \A h \in after : j <= h], CasedRanges)
        THEN FinalSmallSigma
        ELSE SmallSigma

\* name.lower()
lower(name) ==
    Flatten([i \in 1..Len(name) |->
                IF name[i] = CapitalSigma THEN <<final_sigma(name, i)>>
                ELSE lower_char(name[i])])

\* name.strip(): the whitespace at both ends removed
strip(name) ==
    LET inked == {i \in 1..Len(name) : name[i] \notin Whitespace}
    IN  IF inked = {} THEN <<>>
        ELSE SubSeq(name, CHOOSE i \in inked : \A j \in inked : i <= j,
                          CHOOSE i \in inked : \A j \in inked : j <= i)

\* "".join(c if c.isalnum() or c in ('-', '_') else '_' for c in normalized)
replace_special(normalized) ==
    [i \in 1..Len(normalized) |->
        IF isalnum(normalized[i]) \/ normalized[i] \in {Hyphen, Underscore}
        THEN normalized[i]
        ELSE Underscore]

\* normalized.split('_'): the pieces between the underscores, empty ones included
RECURSIVE split_underscore(_, _)
split_underscore(normalized, piece) ==
    IF normalized = <<>> THEN <<piece>>
    ELSE IF Head(normalized) = Underscore
         THEN <<piece>> \o split_underscore(Tail(normalized), <<>>)
         ELSE split_underscore(Tail(normalized), Append(piece, Head(normalized)))

\* "_".join(pieces)
RECURSIVE join_underscore(_)
join_underscore(pieces) ==
    IF pieces = <<>> THEN <<>>
    ELSE IF Len(pieces) = 1 THEN pieces[1]
    ELSE pieces[1] \o <<Underscore>> \o join_underscore(Tail(pieces))

\* "unnamed_project"
UnnamedProject ==
    <<117, 110, 110, 97, 109, 101, 100, 95, 112, 114, 111, 106, 101, 99, 116>>

\* ProjectTodoList._normalize_project_name: lower-cased and stripped, every
\* character that is not alphanumeric, '-' or '_' replaced by '_', runs of
\* '_' collapsed and stripped, "unnamed_project" when nothing is left
_normalize_project_name(name) ==
    LET normalized == join_underscore(
                          SelectSeq(split_underscore(replace_special(strip(lower(name))),
                                                     <<>>),
                                    LAMBDA piece : piece # <<>>))
    IN  IF normalized = <<>> THEN UnnamedProject ELSE normalized

ProjectContext(project_id, project_name) ==
    [project_id |-> project_id, project_name |-> project_name]

\* ProjectTodoList(project_name, tasks), project_id left to its default
ProjectTodoList(project_name, task_list) ==
    [project_context |-> ProjectContext(_normalize_project_name(project_name), project_name),
     tasks |-> task_list]

AggregatedTask(task, project_context) ==
    [task |-> task, project_context |-> project_context]

\* _enrich_task_with_project: the value of task.project after the call
_enrich_task_with_project(label, project_context) ==
    IF Unset(label) THEN project_context.project_name ELSE label

\* the (task, project_context) pairs visited by the two for loops of aggregate
RECURSIVE Supplies(_)
Supplies(todos) ==
    IF todos = <<>> THEN <<>>
    ELSE MapSeq(LAMBDA t : AggregatedTask(t, Head(todos).project_context), Head(todos).tasks)
         \o Supplies(Tail(todos))

\* the labels after _enrich_task_with_project has run over the supplies in order
RECURSIVE EnrichAll(_, _)
EnrichAll(supplies, labels) ==
    IF supplies = <<>> THEN labels
    ELSE EnrichAll(Tail(supplies),
                   [labels EXCEPT ![Head(supplies).task.id] =
                        _enrich_task_with_project(labels[Head(supplies).task.id],
                                                  Head(supplies).project_context)])

\* TaskAggregator.aggregate: the returned list and the labels it leaves
aggregate(todos, labels) ==
    [aggregated |-> Supplies(todos), labels |-> EnrichAll(Supplies(todos), labels)]

_has_valid_metadata(task) == task.estimated_duration > 0

\* datetime.max: year 9999, later than every deadline
max_datetime == (9999 - 1970) * 366 * TicksPerDay

\* x or max_datetime, for an Optional[datetime] x
OrMax(x) == IF x = None THEN max_datetime ELSE x

\* comparison of two tuples of the same length, as Python compares tuples
RECURSIVE TupleLess(_, _)
TupleLess(a, b) ==
    IF a = <<>> THEN FALSE
    ELSE IF Head(a) # Head(b) THEN Head(a) < Head(b)
    ELSE TupleLess(Tail(a), Tail(b))

\* the sort keys of the five sorted(...) calls
hard_key(t) == <<OrMax(t.deadline_external), t.estimated_duration, t.title>>
soft_key(t) == <<OrMax(t.deadline_user), t.estimated_duration, t.title>>
none_key(t) == <<t.estimated_duration, t.title>>
\* the key of completed tasks with the deadline ahead of the duration
completed_meta_key_DeadlineFirst(t) ==
    <<OrMax(effective_deadline(t)), t.estimated_duration, t.title>>

completed_meta_key(t) == <<t.estimated_duration, OrMax(effective_deadline(t)), t.title>>
completed_no_meta_key(t) == <<t.title>>

\* insertion that puts x ahead of the elements with an equal key
RECURSIVE InsertByKey_BeforeEqual(_, _)
InsertByKey_BeforeEqual(x, s) ==
    IF s = <<>> THEN <<x>>
    ELSE IF ~TupleLess(Head(s)[1], x[1]) THEN <<x>> \o s
    ELSE <<Head(s)>> \o InsertByKey_BeforeEqual(x, Tail(s))

\* insert the pair x = <<key, item>>, which follows every element of the
\* sorted list s in the input, after the elements whose key is not greater
RECURSIVE InsertByKey(_, _)
InsertByKey(x, s) ==
    IF s = <<>> THEN <<x>>
    ELSE IF TupleLess(x[1], Head(s)[1]) THEN <<x>> \o s
    ELSE <<Head(s)>> \o InsertByKey(x, Tail(s))

\* sorted(items, key=...) on the list of <<key(item), item>> pairs: stable,
\* ascending, returns the items
RECURSIVE SortKeyed(_)
SortKeyed(keyed) ==
    IF keyed = <<>> THEN <<>>
    ELSE InsertByKey(keyed[Len(keyed)], SortKeyed(SubSeq(keyed, 1, Len(keyed) - 1)))

sorted(keyed) == MapSeq(LAMBDA pair : pair[2], SortKeyed(keyed))

\* the five lists filled by the for loop of _sort_tasks_globally
incomplete_hard(task_list) ==
    SelectSeq(task_list, LAMBDA t : ~t.completed /\ t.deadline_external # None)
\* the soft tier filled by an `if` in place of the `elif`
incomplete_soft_AnyUserDeadline(task_list) ==
    SelectSeq(task_list, LAMBDA t : ~t.completed /\ t.deadline_user # None)

incomplete_soft(task_list) ==
    SelectSeq(task_list, LAMBDA t : ~t.completed /\ t.deadline_external = None
                                    /\ t.deadline_user # None)
incomplete_none(task_list) ==
    SelectSeq(task_list, LAMBDA t : ~t.completed /\ t.deadline_external = None
                                    /\ t.deadline_user = None)
completed_with_metadata(task_list) ==
    SelectSeq(task_list, LAMBDA t : t.completed /\ _has_valid_metadata(t))
completed_without_metadata(task_list) ==
    SelectSeq(task_list, LAMBDA t : t.completed /\ ~_has_valid_metadata(t))

\* _sort_tasks_globally with the soft-deadline tier ahead of the hard one
sort_tasks_globally_SoftFirst(task_list) ==
    sorted(MapSeq(LAMBDA t : <<soft_key(t), t>>, incomplete_soft(task_list)))
    \o sorted(MapSeq(LAMBDA t : <<hard_key(t), t>>, incomplete_hard(task_list)))
    \o sorted(MapSeq(LAMBDA t : <<none_key(t), t>>, incomplete_none(task_list)))
    \o sorted(MapSeq(LAMBDA t : <<completed_meta_key(t), t>>,
                     completed_with_metadata(task_list)))
    \o sorted(MapSeq(LAMBDA t : <<completed_no_meta_key(t), t>>,
                     completed_without_metadata(task_list)))

_sort_tasks_globally(task_list) ==
    sorted(MapSeq(LAMBDA t : <<hard_key(t), t>>, incomplete_hard(task_list)))
    \o sorted(MapSeq(LAMBDA t : <<soft_key(t), t>>, incomplete_soft(task_list)))
    \o sorted(MapSeq(LAMBDA t : <<none_key(t), t>>, incomplete_none(task_list)))
    \o sorted(MapSeq(LAMBDA t : <<completed_meta_key(t), t>>,
                     completed_with_metadata(task_list)))
    \o sorted(MapSeq(LAMBDA t : <<completed_no_meta_key(t), t>>,
                     completed_without_metadata(task_list)))

get_task_pool(aggregated_tasks) ==
    _sort_tasks_globally(MapSeq(LAMBDA agg_task : agg_task.task, aggregated_tasks))

(***************************************************************************)
(* Calls of the aggregator.                                                *)
(***************************************************************************)
MaxPoolTasks == 3
MaxProjects == 2
MaxAggregateCalls == 2

\* tasks handed to the prioritizer: every combination of deadlines, two
\* durations, two titles, complete or not
PoolDeadlines == {<<None, None>>, <<1, None>>, <<2, None>>, <<None, 1>>, <<None, 2>>,
                  <<1, 2>>, <<2, 1>>}
PoolTaskShapes(id) ==
    {Task(id, title, d, dl[1], dl[2], c) :
        title \in 1..2, d \in 1..2, dl \in PoolDeadlines, c \in BOOLEAN}
PoolTaskLists ==
    UNION {{s \in [1..n -> UNION {PoolTaskShapes(i) : i \in 1..n}] :
               \A k \in 1..n : s[k].id = k}
           : n \in 1..MaxPoolTasks}

\* no scheduling engine call is made in a run of the aggregator
SchedulerIdle ==
    /\ HalfHourRun
    /\ mode = "aggregate"
    /\ tasks = <<>>
    /\ start_time = 0
    /\ start_aware = TRUE
    /\ blocked_arg = <<>>
    /\ num_days = 0
    /\ daily_blocks = <<>>
    /\ Locals0

AggregatorLocals0 ==
    /\ aggregate_arg = <<>>
    /\ aggregated = <<>>
    /\ task_pool = <<>>
    /\ agg_pc = "ready"
    /\ agg_calls = 0

\* one project, "Work", holding tasks of every shape, none of them labelled
InitPoolInputs ==
    /\ \E task_list \in PoolTaskLists :
          /\ project_todos = <<ProjectTodoList(<<87, 111, 114, 107>>, task_list)>>
          /\ project_label = [id \in 1..Len(task_list) |-> NoProject]
    /\ AggregatorLocals0
    /\ SchedulerIdle

\* one or two projects sharing two plain tasks, labelled or not
LabelTask(id) == Task(id, 1, 1, None, None, FALSE)
LabelTaskLists ==
    {<<>>, <<LabelTask(1)>>, <<LabelTask(2)>>, <<LabelTask(1), LabelTask(2)>>,
     <<LabelTask(2), LabelTask(1)>>}
LabelProjects == {ProjectTodoList(name, task_list) :
                     name \in ProjectNames, task_list \in LabelTaskLists}
LabelTodos ==
    UNION {[1..n -> LabelProjects] : n \in 1..MaxProjects}

InitLabelInputs ==
    /\ project_todos \in LabelTodos
    \* labels None, "", "home" and "client"
    /\ project_label \in [1..2 -> {NoProject, <<>>, <<104, 111, 109, 101>>,
                                 <<99, 108, 105, 101, 110, 116>>}]
    /\ AggregatorLocals0
    /\ SchedulerIdle

AggInit == (InitPoolInputs \/ InitLabelInputs) /\ ConstructorIdle

\* the lists a caller can hand to aggregate: the project lists it holds, in
\* any order, or one of them alone
AggregateArgs ==
    {project_todos}
    \cup {<<project_todos[i]>> : i \in 1..Len(project_todos)}
    \cup {<<project_todos[p[2]], project_todos[p[1]]>> :
             p \in {q \in (1..Len(project_todos)) \X (1..Len(project_todos)) : q[1] < q[2]}}

\* the return of aggregate, given its argument and its result
AggregateReturn(arg, out) ==
    /\ aggregate_arg' = arg
    /\ aggregated' = out.aggregated
    /\ project_label' = out.labels
    /\ agg_calls' = agg_calls + 1
    /\ agg_pc' = "aggregated"

\* aggregator.aggregate(project_todos)
CallAggregate ==
    /\ agg_pc \in {"ready", "aggregated", "pooled"}
    /\ agg_calls < MaxAggregateCalls
    /\ \E arg \in AggregateArgs : AggregateReturn(arg, aggregate(arg, project_label))
    /\ UNCHANGED <<project_todos, task_pool>>
    /\ UNCHANGED <<scheduler_vars, constructor_vars>>

\* aggregator.get_task_pool(aggregated)
CallGetTaskPool ==
    /\ agg_pc = "aggregated"
    /\ task_pool' = get_task_pool(aggregated)
    /\ agg_pc' = "pooled"
    /\ UNCHANGED <<project_todos, project_label, aggregate_arg, aggregated, agg_calls>>
    /\ UNCHANGED <<scheduler_vars, constructor_vars>>

AggNext == CallAggregate \/ CallGetTaskPool

AggSpec == AggInit /\ [][AggNext]_vars

(***************************************************************************)
(* Vocabulary of the properties.                                           *)
(***************************************************************************)
Done == pc = "done"

\* the blocked intervals supplied to the run, in the caller's order
InputBlocks ==
    IF mode = "schedule_tasks" THEN blocked_arg
    ELSE Flatten(SubSeq(daily_blocks, 1, num_days + 1))

ValidInput == start_aware /\ \A k \in 1..Len(InputBlocks) : InputBlocks[k].aware

Overlap(s1, e1, s2, e2) == s1 < e2 /\ s2 < e1

IncompleteIds == {tasks[k].id : k \in {j \in 1..Len(tasks) : ~tasks[j].completed}}

TaskById(id) == tasks[CHOOSE k \in 1..Len(tasks) : tasks[k].id = id]

\* the raw segments produced so far for a task, as <<start, end>> pairs
ProducedSegments(id) ==
    LET hit == SelectSeq(segments_by_task, LAMBDA g : g.id = id)
    IN  IF hit = <<>> THEN <<>> ELSE MapSeq(LAMBDA sg : <<sg[2], sg[3]>>, hit[1].segments)

AllProducedSegments ==
    Flatten(MapSeq(LAMBDA g : MapSeq(LAMBDA sg : <<sg[2], sg[3]>>, g.segments),
                   segments_by_task))

\* the ScheduledTask entries of the output that refer to a task
OutputSegments(id) == SelectSeq(scheduled, LAMBDA st : st.task.id = id)

PlacedLength(id) == SeqSum(MapSeq(LAMBDA st : st.end - st.start, OutputSegments(id)))

PairwiseDisjoint(pairs) ==
    \A i, j \in 1..Len(pairs) :
        i < j => ~Overlap(pairs[i][1], pairs[i][2], pairs[j][1], pairs[j][2])

\* the end of the chronologically last output segment of a task
FinalEnd(id) ==
    LET segs == OutputSegments(id)
    IN  segs[CHOOSE i \in 1..Len(segs) : \A j \in 1..Len(segs) : segs[j].start <= segs[i].start].end

PlacedIds == {scheduled[k].task.id : k \in 1..Len(scheduled)}

(***************************************************************************)
(* C1.  For every incomplete input task, the segments produced for it are  *)
(* pairwise non-overlapping and never exceed its estimated duration while  *)
(* the loop runs, and in the output of the run they are pairwise           *)
(* non-overlapping and their lengths sum to exactly estimated_duration.    *)
(***************************************************************************)
C1_SegmentsCoverDuration ==
    /\ pc = "loop" =>
          \A id \in IncompleteIds :
              /\ PairwiseDisjoint(ProducedSegments(id))
              /\ SeqSum(MapSeq(LAMBDA sg : sg[2] - sg[1], ProducedSegments(id)))
                     + remaining_work[id] = TaskById(id).estimated_duration
              /\ remaining_work[id] >= 0
    /\ Done =>
          \A id \in IncompleteIds :
              /\ PairwiseDisjoint(MapSeq(LAMBDA st : <<st.start, st.end>>, OutputSegments(id)))
              /\ PlacedLength(id) = TaskById(id).estimated_duration

\* a finished run in which some task was split into two or more segments
C1_Witness ==
    /\ Done
    /\ \E id \in IncompleteIds :
          /\ Len(OutputSegments(id)) >= 2
          /\ PlacedLength(id) = TaskById(id).estimated_duration

(***************************************************************************)
(* C2.  No segment produced by a run overlaps any blocked interval         *)
(* supplied to that run, whatever the order, nesting or overlap of the     *)
(* blocked intervals and also when the start instant lies inside one.      *)
(***************************************************************************)
C2_NoSegmentInBlockedTime ==
    /\ \A i \in 1..Len(AllProducedSegments), k \in 1..Len(InputBlocks) :
          ~Overlap(AllProducedSegments[i][1], AllProducedSegments[i][2],
                   InputBlocks[k].start, InputBlocks[k].end)
    /\ \A i \in 1..Len(scheduled), k \in 1..Len(InputBlocks) :
          ~Overlap(scheduled[i].start, scheduled[i].end,
                   InputBlocks[k].start, InputBlocks[k].end)

\* a finished run with unsorted, overlapping blocked intervals, the start
\* instant strictly inside one of them, and a task placed
C2_Witness ==
    /\ Done /\ mode = "schedule_tasks" /\ scheduled # <<>>
    /\ Len(blocked_arg) = 2
    /\ blocked_arg[1].start > blocked_arg[2].start
    /\ Overlap(blocked_arg[1].start, blocked_arg[1].end,
               blocked_arg[2].start, blocked_arg[2].end)
    /\ \E k \in 1..2 : blocked_arg[k].start < start_time /\ start_time < blocked_arg[k].end

(***************************************************************************)
(* C3.  The placement loop terminates: every iteration that stays in the   *)
(* loop strictly decreases the total remaining work, which is never        *)
(* negative.  The loop is left with every remaining-duration counter at    *)
(* exactly zero, no counter is ever negative, and the loop is never left   *)
(* through one of its defensive breaks (no task selectable, no segment     *)
(* produced).                                                              *)
(***************************************************************************)
RECURSIVE SumOver(_, _)
SumOver(f, S) ==
    IF S = {} THEN 0
    ELSE LET x == CHOOSE y \in S : TRUE IN f[x] + SumOver(f, S \ {x})

TotalRemaining == SumOver(remaining_work, DOMAIN remaining_work)

C3_Progress ==
    (pc = "loop" /\ pc' = "loop") =>
        /\ TotalRemaining' < TotalRemaining
        /\ TotalRemaining' >= 0

C3_LoopState ==
    /\ \A id \in DOMAIN remaining_work : remaining_work[id] >= 0
    /\ loop_exit \in {"running", "all_done"}
    /\ loop_exit = "all_done" =>
          /\ \A id \in DOMAIN remaining_work : remaining_work[id] = 0
          /\ DOMAIN remaining_work = IncompleteIds

C3_LoopTerminatesAtZero == []C3_LoopState /\ [][C3_Progress]_vars

\* the loop ran at least three iterations for two tasks and was left
\* with all counters at zero
C3_Witness ==
    /\ Done /\ loop_exit = "all_done"
    /\ Cardinality(IncompleteIds) = 2
    /\ Len(AllProducedSegments) >= 3
    /\ \A id \in IncompleteIds : remaining_work[id] = 0

(***************************************************************************)
(* C4.  Whenever some order of running the incomplete tasks one after the  *)
(* other meets every external deadline, the schedule the engine produces   *)
(* violates no external deadline.                                          *)
(***************************************************************************)
\* a tick [u, u+1) that no supplied block covers
FreeTick(u) ==
    \A k \in 1..Len(InputBlocks) : ~Overlap(u, u + 1, InputBlocks[k].start, InputBlocks[k].end)

\* the instant at which d ticks of free time have passed since c
RECURSIVE FinishAfter(_, _)
FinishAfter(c, d) ==
    IF d = 0 THEN c
    ELSE IF FreeTick(c) THEN FinishAfter(c + 1, d - 1)
    ELSE FinishAfter(c + 1, d)

\* the finish instant of the k-th task of the order p, run back to back
RECURSIVE FinishInOrder(_, _)
FinishInOrder(p, k) ==
    IF k = 0 THEN start_time
    ELSE FinishAfter(FinishInOrder(p, k - 1), TaskById(p[k]).estimated_duration)

Orders(S) == {p \in [1..Cardinality(S) -> S] : \A i, j \in DOMAIN p : p[i] = p[j] => i = j}

FeasibleOrderExists ==
    \E p \in Orders(IncompleteIds) :
        \A k \in DOMAIN p :
            TaskById(p[k]).deadline_external # None =>
                FinishInOrder(p, k) <= TaskById(p[k]).deadline_external

C4_ExternalDeadlinesProtected ==
    (Done /\ ValidInput /\ FeasibleOrderExists) =>
        \A k \in 1..Len(scheduled) : ~scheduled[k].violates_deadline_external

(***************************************************************************)
(* C5.  On well-formed input a run never raises: tasks whose deadline is   *)
(* already past at the start instant or cannot be met are still placed in  *)
(* full, and each missed deadline shows as a violation flag and a          *)
(* conflict message.                                                       *)
(***************************************************************************)
MissedDeadlines(id) ==
    {kind \in {"user", "external"} :
        LET dl == IF kind = "user" THEN TaskById(id).deadline_user
                  ELSE TaskById(id).deadline_external
        IN  dl # None /\ FinalEnd(id) > dl}

C5_ViolationsNeverAbort ==
    ValidInput =>
        /\ pc # "error" /\ error = "none"
        /\ Done =>
              \A id \in IncompleteIds :
                  /\ PlacedLength(id) = TaskById(id).estimated_duration
                  /\ \A kind \in MissedDeadlines(id) :
                        /\ \E k \in 1..Len(scheduled) :
                              /\ scheduled[k].task.id = id
                              /\ IF kind = "user" THEN scheduled[k].violates_deadline_user
                                 ELSE scheduled[k].violates_deadline_external
                        /\ \E m \in 1..Len(conflicts) :
                              /\ conflicts[m].title = TaskById(id).title
                              /\ conflicts[m].kind = kind

\* a finished run with one task whose deadline had passed at the start
\* instant and another whose deadline cannot be met, both placed in full
C5_Witness ==
    /\ Done /\ ValidInput /\ Cardinality(IncompleteIds) = 2
    /\ \E a, b \in IncompleteIds :
          /\ a # b
          /\ effective_deadline(TaskById(a)) # None
          /\ effective_deadline(TaskById(a)) <= start_time
          /\ effective_deadline(TaskById(b)) # None
          /\ effective_deadline(TaskById(b)) > start_time
          /\ effective_deadline(TaskById(b)) < start_time + TaskById(b).estimated_duration
          /\ PlacedLength(a) = TaskById(a).estimated_duration
          /\ PlacedLength(b) = TaskById(b).estimated_duration
          /\ MissedDeadlines(a) # {} /\ MissedDeadlines(b) # {}
    /\ Len(conflicts) >= 2

(***************************************************************************)
(* C6.  Each violation flag of an output segment is true exactly when the  *)
(* end of its task's chronologically last segment is strictly later than   *)
(* the deadline of that kind; an absent deadline is never violated, and    *)
(* all segments of a task carry the same two flags.                        *)
(***************************************************************************)
C6_FlagsFromFinalEnd ==
    Done =>
        \A k \in 1..Len(scheduled) :
            LET st == scheduled[k]
                final == FinalEnd(st.task.id)
            IN  /\ st.violates_deadline_user <=>
                      (st.task.deadline_user # None /\ final > st.task.deadline_user)
                /\ st.violates_deadline_external <=>
                      (st.task.deadline_external # None /\ final > st.task.deadline_external)
                /\ \A j \in 1..Len(scheduled) :
                      scheduled[j].task.id = st.task.id =>
                          /\ scheduled[j].violates_deadline_user = st.violates_deadline_user
                          /\ scheduled[j].violates_deadline_external
                                 = st.violates_deadline_external

\* a split task that ends exactly at its user deadline (no violation) and
\* after its external deadline (violation)
C6_Witness ==
    /\ Done
    /\ \E k \in 1..Len(scheduled) :
          LET st == scheduled[k]
          IN  /\ Len(OutputSegments(st.task.id)) >= 2
              /\ st.end < FinalEnd(st.task.id)
              /\ st.task.deadline_user = FinalEnd(st.task.id)
              /\ ~st.violates_deadline_user
              /\ st.task.deadline_external # None
              /\ st.violates_deadline_external

(***************************************************************************)
(* C7.  The conflict list holds exactly one message for each (task, kind   *)
(* of deadline) whose violation flag is true, naming the task, its final   *)
(* end and the deadline, and no other message.                             *)
(***************************************************************************)
FlaggedPairs ==
    {<<scheduled[k].task.id, "user">> : k \in {j \in 1..Len(scheduled) :
                                                scheduled[j].violates_deadline_user}}
    \cup {<<scheduled[k].task.id, "external">> : k \in {j \in 1..Len(scheduled) :
                                                scheduled[j].violates_deadline_external}}

MessagesFor(id, kind) ==
    {m \in 1..Len(conflicts) :
        /\ conflicts[m].title = TaskById(id).title
        /\ conflicts[m].kind = kind
        /\ conflicts[m].ends_at = strftime(FinalEnd(id))
        /\ conflicts[m].deadline = strftime(IF kind = "user" THEN TaskById(id).deadline_user
                                            ELSE TaskById(id).deadline_external)}

C7_OneConflictPerViolation ==
    Done =>
        /\ \A pair \in FlaggedPairs : Cardinality(MessagesFor(pair[1], pair[2])) = 1
        /\ Len(conflicts) = Cardinality(FlaggedPairs)

\* a task that misses both of its deadlines, beside a task that misses none
C7_Witness ==
    /\ Done
    /\ \E a, b \in PlacedIds :
          /\ <<a, "user">> \in FlaggedPairs /\ <<a, "external">> \in FlaggedPairs
          /\ <<b, "user">> \notin FlaggedPairs /\ <<b, "external">> \notin FlaggedPairs
          /\ effective_deadline(TaskById(b)) # None
    /\ Len(conflicts) = 2

(***************************************************************************)
(* C8.  A task placed as one segment has is_segment false, no              *)
(* segment_index and no total_segments, and a length equal to its          *)
(* estimated duration; a task placed as k > 1 segments has is_segment true *)
(* and total_segments = k on every segment, and segment_index counts       *)
(* 1..k in the order of the segments' starts.                              *)
(***************************************************************************)
C8_SegmentMetadata ==
    Done =>
        \A id \in PlacedIds :
            LET segs == OutputSegments(id)
                k == Len(segs)
            IN  IF k = 1
                THEN /\ ~segs[1].is_segment
                     /\ segs[1].segment_index = None /\ segs[1].total_segments = None
                     /\ segs[1].end - segs[1].start = segs[1].task.estimated_duration
                ELSE \A i \in 1..k :
                        /\ segs[i].is_segment
                        /\ segs[i].total_segments = k
                        /\ segs[i].segment_index
                               = Cardinality({j \in 1..k : segs[j].start <= segs[i].start})

\* one task in a single segment and another split in two, in one output
C8_Witness ==
    /\ Done
    /\ \E a, b \in PlacedIds :
          /\ Len(OutputSegments(a)) = 1 /\ ~OutputSegments(a)[1].is_segment
          /\ Len(OutputSegments(b)) = 2
          /\ OutputSegments(b)[2].segment_index = 2
          /\ OutputSegments(b)[1].start < OutputSegments(a)[1].start
          /\ OutputSegments(a)[1].start < OutputSegments(b)[2].start

(***************************************************************************)
(* C10.  A call with a timezone-naive start instant or a timezone-naive    *)
(* blocked-interval boundary fails with ValueError before the placement    *)
(* loop is entered: nothing is placed and nothing is returned.             *)
(***************************************************************************)
C10_NaiveInputRejectedFirst ==
    ~ValidInput =>
        /\ pc = "call" \/ (pc = "error" /\ error = "ValueError")
        /\ segments_by_task = <<>>
        /\ result = <<>>

(***************************************************************************)
(* C11.  Completed tasks take no part in placement: no output segment      *)
(* refers to a completed task, and the segments and conflict messages of   *)
(* a run are exactly those of the run on the input list with its           *)
(* completed tasks removed.                                                *)
(***************************************************************************)
WithoutCompleted(task_list) == SelectSeq(task_list, LAMBDA t : ~t.completed)

C11_CompletedTasksExcluded ==
    Done =>
        /\ \A k \in 1..Len(scheduled) : ~scheduled[k].task.completed
        /\ \A g \in 1..Len(segments_by_task) :
              \A i \in 1..Len(segments_by_task[g].segments) :
                  ~segments_by_task[g].segments[i][1].completed
        /\ scheduled =
               _schedule_opportunistically(WithoutCompleted(tasks), start_time,
                                           sorted_blocks).scheduled
        /\ conflicts =
               _schedule_opportunistically(WithoutCompleted(tasks), start_time,
                                           sorted_blocks).conflicts

\* a finished run whose input list holds a completed task with a deadline
\* that had passed, ahead of an incomplete task that was placed
C11_Witness ==
    /\ Done /\ Len(tasks) = 2
    /\ tasks[1].completed /\ tasks[1].deadline_user # None
    /\ tasks[1].deadline_user <= start_time
    /\ ~tasks[2].completed
    /\ Len(scheduled) >= 1
    /\ \A k \in 1..Len(scheduled) : scheduled[k].task = tasks[2]

(***************************************************************************)
(* C12.  When exactly one incomplete task carries a deadline, that task    *)
(* is selected at every step until it is finished, so all of its segments  *)
(* come before every segment of the other tasks and its first segment      *)
(* starts at the first free instant from the start instant on.  With a     *)
(* no-deadline task A, an external-deadline task B and no blocked time, B  *)
(* is placed before A and without violation whenever B's duration fits     *)
(* before its deadline.                                                    *)
(***************************************************************************)
DeadlineIds == {id \in IncompleteIds : effective_deadline(TaskById(id)) # None}

TheDeadlineTask == TaskById(CHOOSE id \in DeadlineIds : TRUE)

\* the first instant at or after c that no supplied block covers
RECURSIVE FirstFreeInstant(_)
FirstFreeInstant(c) == IF FreeTick(c) THEN c ELSE FirstFreeInstant(c + 1)

C12_SelectedAtEveryStep ==
    (/\ pc = "loop" /\ ValidInput
     /\ Cardinality(DeadlineIds) = 1
     /\ remaining_work[TheDeadlineTask.id] > 0)
        => _select_next_task(incomplete_tasks, remaining_work, current_time, sorted_blocks)
               = TheDeadlineTask

C12_PlacedFirst ==
    (Done /\ ValidInput /\ Cardinality(DeadlineIds) = 1) =>
        /\ \A i, j \in 1..Len(scheduled) :
              (scheduled[i].task.id = TheDeadlineTask.id
               /\ scheduled[j].task.id # TheDeadlineTask.id)
                  => scheduled[i].end <= scheduled[j].start
        /\ scheduled[1].task = TheDeadlineTask
        /\ scheduled[1].start = FirstFreeInstant(start_time)

C12_TwoTaskCase ==
    (/\ Done /\ ValidInput /\ InputBlocks = <<>> /\ Len(tasks) = 2
     /\ \E a, b \in 1..2 :
           /\ a # b /\ tasks[a].id # tasks[b].id
           /\ ~tasks[a].completed /\ effective_deadline(tasks[a]) = None
           /\ ~tasks[b].completed /\ tasks[b].deadline_external # None
           /\ tasks[b].deadline_user = None
           /\ start_time + tasks[b].estimated_duration <= tasks[b].deadline_external)
        => /\ Len(scheduled) = 2
           /\ scheduled[1].task.deadline_external # None
           /\ scheduled[1].start = start_time
           /\ scheduled[1].end = start_time + scheduled[1].task.estimated_duration
           /\ ~scheduled[1].violates_deadline_user
           /\ ~scheduled[1].violates_deadline_external
           /\ scheduled[2].start = scheduled[1].end

C12_DeadlineTaskFirst == C12_SelectedAtEveryStep /\ C12_PlacedFirst /\ C12_TwoTaskCase

\* the same, for deadlines less than NO_DEADLINE_BASE seconds ahead
C12_NearDeadlineTaskFirst ==
    (\A k \in 1..Len(tasks) :
        /\ tasks[k].deadline_user < FarDeadline \div 2
        /\ tasks[k].deadline_external < FarDeadline \div 2)
        => C12_DeadlineTaskFirst

(***************************************************************************)
(* C13.  With no blocked interval every incomplete task is placed as       *)
(* exactly one unsegmented segment as long as its estimated duration, the  *)
(* segments lie back to back from the start instant on, and a single       *)
(* no-deadline task of duration d started at s yields the one segment      *)
(* [s, s+d) and no conflict.                                               *)
(***************************************************************************)
C13_NoBlocksBackToBack ==
    (Done /\ ValidInput /\ InputBlocks = <<>>) =>
        /\ Len(scheduled) = Cardinality(IncompleteIds)
        /\ \A id \in IncompleteIds : Len(OutputSegments(id)) = 1
        /\ \A k \in 1..Len(scheduled) :
              /\ ~scheduled[k].is_segment
              /\ scheduled[k].segment_index = None
              /\ scheduled[k].total_segments = None
              /\ scheduled[k].end - scheduled[k].start
                     = scheduled[k].task.estimated_duration
              /\ scheduled[k].start = IF k = 1 THEN start_time ELSE scheduled[k - 1].end
        /\ (/\ Len(tasks) = 1 /\ ~tasks[1].completed
            /\ tasks[1].deadline_user = None /\ tasks[1].deadline_external = None)
              => /\ scheduled =
                        <<ScheduledTask(tasks[1], start_time,
                                        start_time + tasks[1].estimated_duration,
                                        FALSE, FALSE, FALSE, None, None)>>
                 /\ conflicts = <<>>

\* the worked example: one task of two hours without deadline, no blocked
\* time, start at 09:00, placed at [09:00, 11:00)
C13_Witness ==
    /\ Done /\ InputBlocks = <<>> /\ start_time = 9 * Hour
    /\ Len(tasks) = 1 /\ tasks[1].estimated_duration = 2 * Hour
    /\ effective_deadline(tasks[1]) = None
    /\ Len(scheduled) = 1
    /\ scheduled[1].start = 9 * Hour /\ scheduled[1].end = 11 * Hour
    /\ conflicts = <<>>

(***************************************************************************)
(* C14.  One task with a deadline at 11:00, one blocked interval           *)
(* [10:00, 10:30), start 09:00.  As stated, for a task of three hours: the *)
(* segments are [09:00, 10:00) and [10:30, 11:30), the task completes at   *)
(* 11:30 and exactly one conflict names the 11:30 completion and the 11:00 *)
(* deadline.  Two segments of one hour place two hours of work, so the     *)
(* outcome described is the one of a task of two hours.                    *)
(***************************************************************************)
C14_Scenario(duration) ==
    /\ Done /\ mode = "schedule_tasks" /\ start_time = 9 * Hour
    /\ InputBlocks = <<TimeBlock(10 * Hour, 10 * Hour + Hour \div 2, TRUE)>>
    /\ Len(tasks) = 1 /\ ~tasks[1].completed
    /\ tasks[1].estimated_duration = duration
    /\ effective_deadline(tasks[1]) = 11 * Hour

C14_Outcome ==
    /\ Len(scheduled) = 2
    /\ scheduled[1].start = 9 * Hour /\ scheduled[1].end = 10 * Hour
    /\ scheduled[2].start = 10 * Hour + Hour \div 2
    /\ scheduled[2].end = 11 * Hour + Hour \div 2
    /\ FinalEnd(tasks[1].id) = 11 * Hour + Hour \div 2
    /\ Len(conflicts) = 1
    /\ conflicts[1].title = tasks[1].title
    /\ conflicts[1].ends_at = <<0, 11, 30>>
    /\ conflicts[1].deadline = <<0, 11, 0>>

\* the scenario as stated, with a task of three hours
C14_ThreeHourScenario == C14_Scenario(3 * Hour) => C14_Outcome

\* the scenario with a task of two hours
C14_TwoHourScenario == C14_Scenario(2 * Hour) => C14_Outcome

C14_Witness == C14_Scenario(2 * Hour) /\ Len(scheduled) = 2 /\ Len(conflicts) = 1

(***************************************************************************)
(* C15.  When a task is selected at cursor c with remaining duration r and *)
(* a blocked interval starts at b with c < b < c + r, the task ends up     *)
(* with two or more segments carrying correct segment_index and            *)
(* total_segments; under multi-day placement, when the blocked interval is *)
(* a sleep block separating two requested days, the segment before it is   *)
(* in the earlier day's DaySchedule and the segment after it in the later  *)
(* day's DaySchedule.                                                      *)
(***************************************************************************)
\* all raw segments <<task, start, end>> of the run, in the order of their
\* placement (the cursor only moves forward, so this is the order of start)
InPlacementOrder ==
    StableSortBy(LAMBDA sg : sg[2],
                 Flatten(MapSeq(LAMBDA g : g.segments, segments_by_task)))

\* the cursor at which the k-th placement was made
CursorBefore(k) == IF k = 1 THEN start_time ELSE InPlacementOrder[k - 1][3]

\* the remaining duration of the task of the k-th placement when it was made
RemainingBefore(k) ==
    InPlacementOrder[k][1].estimated_duration
        - SeqSum(MapSeq(LAMBDA sg : sg[3] - sg[2],
                        SelectSeq(SubSeq(InPlacementOrder, 1, k - 1),
                                  LAMBDA sg : sg[1].id = InPlacementOrder[k][1].id)))

\* a blocked interval of the run starts strictly between lo and hi
BlockStartsWithin(lo, hi) ==
    \E i \in 1..Len(sorted_blocks) : lo < sorted_blocks[i].start /\ sorted_blocks[i].start < hi

\* the output holds two or more segments of the task, numbered 1..n by start
SplitWithMetadata(id) ==
    LET segs == OutputSegments(id)
    IN  /\ Len(segs) >= 2
        /\ \A i \in 1..Len(segs) :
              /\ segs[i].is_segment
              /\ segs[i].total_segments = Len(segs)
              /\ segs[i].segment_index
                     = 1 + Cardinality({j \in 1..Len(segs) : segs[j].start < segs[i].start})

\* a block that starts on one requested day and ends on the next requested day
SeparatesRequestedDays(b) ==
    /\ date(b.end) = date(b.start) + 1
    /\ date(start_time) <= date(b.start)
    /\ date(b.end) <= date(start_time) + num_days - 1

InDaySchedule(st, day_date) ==
    \E k \in 1..Len(result[day_date].scheduled_tasks) :
        result[day_date].scheduled_tasks[k] = st

C15_AcrossSleepBlock ==
    (Done /\ mode = "schedule_continuous") =>
        \A i \in 1..Len(sorted_blocks) :
            SeparatesRequestedDays(sorted_blocks[i]) =>
                \A k \in 1..Len(scheduled) :
                    /\ scheduled[k].end = sorted_blocks[i].start
                          => InDaySchedule(scheduled[k], date(sorted_blocks[i].start))
                    /\ scheduled[k].start = sorted_blocks[i].end
                          => InDaySchedule(scheduled[k], date(sorted_blocks[i].end))

\* as stated: c is the cursor at which the task is selected
C15_SplitAtCursor ==
    /\ Done =>
          \A k \in 1..Len(InPlacementOrder) :
              BlockStartsWithin(CursorBefore(k), CursorBefore(k) + RemainingBefore(k))
                  => SplitWithMetadata(InPlacementOrder[k][1].id)
    /\ C15_AcrossSleepBlock

\* c is the instant at which the segment of the selected task starts, that
\* is the first free instant at or after the cursor
C15_SplitAtSegmentStart ==
    /\ Done =>
          \A k \in 1..Len(InPlacementOrder) :
              /\ InPlacementOrder[k][2] = FirstFreeInstant(CursorBefore(k))
              /\ BlockStartsWithin(InPlacementOrder[k][2],
                                   InPlacementOrder[k][2] + RemainingBefore(k))
                    => SplitWithMetadata(InPlacementOrder[k][1].id)
    /\ C15_AcrossSleepBlock

\* a task that runs into the sleep block between two requested days: one
\* segment up to 22:00 in the first day's schedule, the next from 02:00 in the
\* second day's schedule
C15_Witness ==
    /\ Done /\ mode = "schedule_continuous" /\ num_days = 2 /\ start_time = 0
    /\ \E i \in 1..Len(sorted_blocks) :
          /\ sorted_blocks[i] = Sleep(0, TRUE)
          /\ \E k, l \in 1..Len(scheduled) :
                /\ scheduled[k].task.id = scheduled[l].task.id
                /\ scheduled[k].start < sorted_blocks[i].start
                /\ scheduled[k].end = sorted_blocks[i].start
                /\ scheduled[l].start = sorted_blocks[i].end
                /\ scheduled[k].segment_index = 1 /\ scheduled[l].segment_index = 2
                /\ scheduled[k].total_segments = 2
                /\ InDaySchedule(scheduled[k], 0) /\ ~InDaySchedule(scheduled[k], 1)
                /\ InDaySchedule(scheduled[l], 1) /\ ~InDaySchedule(scheduled[l], 0)

(***************************************************************************)
(* C20.  Multi-day placement is one placement run from the start instant   *)
(* over the blocked intervals of the requested days plus one extra day     *)
(* (num_days + 1 days concatenated), and every segment found in a returned *)
(* DaySchedule is a segment of that one run, unclipped: same start, end,   *)
(* violation flags and segment metadata.                                   *)
(***************************************************************************)
\* the blocks of the days start .. start + num_days, sorted by start
BlocksOfRun ==
    StableSortBy(LAMBDA b : b.start, Flatten(SubSeq(daily_blocks, 1, num_days + 1)))

C20_SingleRunPartitioned ==
    (Done /\ mode = "schedule_continuous") =>
        /\ sorted_blocks = BlocksOfRun
        /\ scheduled = _schedule_opportunistically(tasks, start_time, BlocksOfRun).scheduled
        /\ conflicts = _schedule_opportunistically(tasks, start_time, BlocksOfRun).conflicts
        /\ DOMAIN result = {date(start_time) + day_offset : day_offset \in 0..(num_days - 1)}
        /\ \A day_date \in DOMAIN result :
              \A k \in 1..Len(result[day_date].scheduled_tasks) :
                  \E j \in 1..Len(scheduled) :
                      result[day_date].scheduled_tasks[k] = scheduled[j]

\* one requested day without blocks, a meeting on the extra day: the task
\* runs over midnight up to the meeting, and the first day's schedule shows
\* that segment whole
C20_Witness ==
    /\ Done /\ mode = "schedule_continuous" /\ num_days = 1 /\ start_time = 0
    /\ daily_blocks[1] = <<>>
    /\ \E i \in 1..Len(sorted_blocks) :
          /\ sorted_blocks[i] = Meeting(1, TRUE)
          /\ \E k \in 1..Len(result[0].scheduled_tasks) :
                /\ result[0].scheduled_tasks[k].start = 0
                /\ result[0].scheduled_tasks[k].end = sorted_blocks[i].start
                /\ result[0].scheduled_tasks[k].is_segment
                /\ result[0].scheduled_tasks[k].total_segments = 2

(***************************************************************************)
(* Construction of domain values (core/models.py, pydantic validation).    *)
(***************************************************************************)
\* Task.generate_id_if_empty: an empty id (code 0) is replaced by a token
GeneratedId == 99
generate_id_if_empty(id) == IF id = 0 THEN GeneratedId ELSE id

\* Task.validate_duration_positive
validate_duration_positive(v) == v > 0

\* Task.validate_deadline_timezone_aware: v is None or carries tzinfo
validate_deadline_timezone_aware(v, aware) == v = None \/ aware

\* Task.validate_id_or_title_nonempty, on the id left by generate_id_if_empty
validate_id_or_title_nonempty(id, title) == ~(id = 0 /\ title = 0)

\* TimeBlock / ScheduledTask field validator of start and end
validate_timezone_aware(aware) == aware

\* Task(**args) succeeds
TaskConstructs(args) ==
    /\ validate_duration_positive(args.estimated_duration)
    /\ validate_deadline_timezone_aware(args.deadline_user, args.user_aware)
    /\ validate_deadline_timezone_aware(args.deadline_external, args.external_aware)
    /\ validate_id_or_title_nonempty(generate_id_if_empty(args.id), args.title)

\* TimeBlock(**args) succeeds: the field validators run first
TimeBlockConstructs(args) ==
    /\ validate_timezone_aware(args.start_aware)
    /\ validate_timezone_aware(args.end_aware)
    /\ validate_start_before_end(args)

\* ScheduledTask(**args) succeeds
ScheduledTaskConstructs(args) ==
    /\ validate_timezone_aware(args.start_aware)
    /\ validate_timezone_aware(args.end_aware)
    /\ ScheduledTaskValid(args)

\* the arguments handed to the three constructors
MaxCtorTime == 2
TaskArgs ==
    [cls : {"Task"}, id : 0..1, title : 0..1, estimated_duration : -1..2,
     deadline_user : {None, 1}, user_aware : BOOLEAN,
     deadline_external : {None, 1}, external_aware : BOOLEAN, completed : BOOLEAN]
TimeBlockArgs ==
    [cls : {"TimeBlock"}, start : 0..MaxCtorTime, end : 0..MaxCtorTime,
     start_aware : BOOLEAN, end_aware : BOOLEAN]
ScheduledTaskArgs ==
    [cls : {"ScheduledTask"},
     task : {Task(1, 1, d, None, None, FALSE) : d \in 1..2},
     start : 0..MaxCtorTime, end : 0..(MaxCtorTime + 1),
     start_aware : BOOLEAN, end_aware : BOOLEAN,
     violates_deadline_user : {FALSE}, violates_deadline_external : {FALSE},
     is_segment : BOOLEAN, segment_index : {None} \cup 0..3,
     total_segments : {None} \cup 1..2]

ConstructInit ==
    /\ ctor_call \in TaskArgs \cup TimeBlockArgs \cup ScheduledTaskArgs
    /\ ctor_result = "pending"
    /\ SchedulerIdle
    /\ AggregatorIdle

\* the outcome of a constructor: the value, or pydantic's ValidationError
Constructed(ok) ==
    /\ ctor_result' = IF ok THEN "ok" ELSE "ValueError"
    /\ UNCHANGED ctor_call
    /\ UNCHANGED <<scheduler_vars, aggregator_vars>>

ConstructTask ==
    /\ ctor_result = "pending" /\ ctor_call.cls = "Task"
    /\ Constructed(TaskConstructs(ctor_call))

ConstructTimeBlock ==
    /\ ctor_result = "pending" /\ ctor_call.cls = "TimeBlock"
    /\ Constructed(TimeBlockConstructs(ctor_call))

ConstructScheduledTask ==
    /\ ctor_result = "pending" /\ ctor_call.cls = "ScheduledTask"
    /\ Constructed(ScheduledTaskConstructs(ctor_call))

ConstructNext == ConstructTask \/ ConstructTimeBlock \/ ConstructScheduledTask

ConstructSpec == ConstructInit /\ [][ConstructNext]_vars

(***************************************************************************)
(* Vocabulary of the prioritizer properties.                               *)
(***************************************************************************)
Pooled == agg_pc = "pooled"

\* the tasks handed to _sort_tasks_globally by the latest get_task_pool
PoolInput == MapSeq(LAMBDA agg_task : agg_task.task, aggregated)

\* 1 hard deadline, 2 soft deadline, 3 no deadline, 4 completed
Tier(t) ==
    IF t.completed THEN 4
    ELSE IF t.deadline_external # None THEN 1
    ELSE IF t.deadline_user # None THEN 2
    ELSE 3

(***************************************************************************)
(* C16.  In the prioritizer's output every incomplete task with an         *)
(* external deadline precedes every incomplete task with only a user       *)
(* deadline, however early that user deadline is, which precedes every     *)
(* incomplete task with no deadline, and every completed task comes after  *)
(* all incomplete tasks.                                                   *)
(***************************************************************************)
C16_TiersInOrder ==
    Pooled =>
        \A i, j \in 1..Len(task_pool) :
            Tier(task_pool[i]) < Tier(task_pool[j]) => i < j

\* a completed task, a task with an early user deadline and a task with a
\* later external deadline, handed over in this order
C16_Witness ==
    /\ Pooled /\ Len(PoolInput) = 3
    /\ Tier(PoolInput[1]) = 4
    /\ Tier(PoolInput[2]) = 2 /\ Tier(PoolInput[3]) = 1
    /\ PoolInput[2].deadline_user < PoolInput[3].deadline_external
    /\ task_pool = <<PoolInput[3], PoolInput[2], PoolInput[1]>>

(***************************************************************************)
(* C17.  Within the hard-deadline tier tasks are ordered by (external      *)
(* deadline, duration, title) ascending, within the soft-deadline tier by  *)
(* (user deadline, duration, title), within the no-deadline tier by        *)
(* (duration, title), and completed tasks by (duration, effective deadline *)
(* with absent treated as latest, title).                                  *)
(***************************************************************************)
\* an absent deadline counts as later than every deadline
AbsentAsLatest(x) == IF x = None THEN max_datetime ELSE x

\* the three sort keys of a task in its tier, most significant first
TierKeys(t) ==
    CASE Tier(t) = 1 -> <<t.deadline_external, t.estimated_duration, t.title>>
      [] Tier(t) = 2 -> <<t.deadline_user, t.estimated_duration, t.title>>
      [] Tier(t) = 3 -> <<0, t.estimated_duration, t.title>>
      [] Tier(t) = 4 -> <<t.estimated_duration, AbsentAsLatest(effective_deadline(t)),
                          t.title>>

\* a does not come after b in ascending order of the keys
KeysAscending(a, b) ==
    \/ a[1] < b[1]
    \/ a[1] = b[1] /\ a[2] < b[2]
    \/ a[1] = b[1] /\ a[2] = b[2] /\ a[3] <= b[3]

C17_OrderedWithinTier ==
    Pooled =>
        \A i, j \in 1..Len(task_pool) :
            (i < j /\ Tier(task_pool[i]) = Tier(task_pool[j]))
                => KeysAscending(TierKeys(task_pool[i]), TierKeys(task_pool[j]))

\* two completed tasks, the first with the longer duration and the earlier
\* deadline: the shorter one comes first
C17_Witness ==
    /\ Pooled /\ Len(PoolInput) >= 2
    /\ PoolInput[1].completed /\ PoolInput[2].completed
    /\ PoolInput[1].estimated_duration > PoolInput[2].estimated_duration
    /\ effective_deadline(PoolInput[1]) # None /\ effective_deadline(PoolInput[2]) # None
    /\ effective_deadline(PoolInput[1]) < effective_deadline(PoolInput[2])
    /\ \E i, j \in 1..Len(task_pool) :
          i < j /\ task_pool[i] = PoolInput[2] /\ task_pool[j] = PoolInput[1]

(***************************************************************************)
(* C18.  Global prioritization is stable and order-independent where it    *)
(* can be: two tasks of the same tier that tie on all sort keys keep their *)
(* relative input order, and when no two tasks of a tier share (deadline,  *)
(* duration, title) the output order is the same for every permutation of  *)
(* the input.                                                              *)
(***************************************************************************)
\* a and b are in the same tier and tie on all its sort keys
Tie(a, b) == Tier(a) = Tier(b) /\ TierKeys(a) = TierKeys(b)

\* every reordering of the list s
Reorderings(s) ==
    {[k \in 1..Len(s) |-> s[p[k]]] :
        p \in {q \in [1..Len(s) -> 1..Len(s)] :
                  \A i, j \in 1..Len(s) : q[i] = q[j] => i = j}}

C18_TiesKeepInputOrder ==
    Pooled =>
        \A i \in 1..Len(PoolInput) :
            SelectSeq(task_pool, LAMBDA t : Tie(t, PoolInput[i]))
                = SelectSeq(PoolInput, LAMBDA t : Tie(t, PoolInput[i]))

C18_OrderIndependentWithoutTies ==
    (/\ Pooled
     /\ \A i, j \in 1..Len(PoolInput) : i < j => ~Tie(PoolInput[i], PoolInput[j]))
        => \A other \in Reorderings(PoolInput) : _sort_tasks_globally(other) = task_pool

C18_StableAndOrderIndependent ==
    C18_TiesKeepInputOrder /\ C18_OrderIndependentWithoutTies

\* two hard-deadline tasks with the same external deadline, duration and
\* title, told apart by their user deadline, followed by a task that sorts
\* ahead of both: the two keep their order behind it
C18_Witness ==
    /\ Pooled /\ Len(PoolInput) = 3
    /\ Tie(PoolInput[1], PoolInput[2])
    /\ Tier(PoolInput[1]) = 1
    /\ PoolInput[1].deadline_user # PoolInput[2].deadline_user
    /\ Tier(PoolInput[3]) = 1 /\ ~Tie(PoolInput[3], PoolInput[1])
    /\ task_pool = <<PoolInput[3], PoolInput[1], PoolInput[2]>>

(***************************************************************************)
(* C19.  Aggregation sets a task's project label to the supplying          *)
(* project's name only when the label is unset and never overwrites an     *)
(* existing label; aggregating the same project lists again, or supplying  *)
(* the same task through a second project, leaves every label as it was    *)
(* after the first aggregation.                                            *)
(***************************************************************************)
\* the step is a call of aggregate
AggregateStep == agg_calls' = agg_calls + 1

\* the ids of the tasks a list of project lists supplies
SuppliedIds(todos) == {Supplies(todos)[k].task.id : k \in 1..Len(Supplies(todos))}

\* a label that is set stays; a label that changes becomes the name of a
\* project that supplies the task in this call
C19_SetOnlyWhenUnset ==
    AggregateStep =>
        \A id \in DOMAIN project_label :
            /\ ~Unset(project_label[id]) => project_label'[id] = project_label[id]
            /\ project_label'[id] # project_label[id] =>
                  \E k \in 1..Len(Supplies(aggregate_arg')) :
                      /\ Supplies(aggregate_arg')[k].task.id = id
                      /\ project_label'[id]
                             = Supplies(aggregate_arg')[k].project_context.project_name

\* a task supplied by the previous call keeps its label in the next call,
\* whichever project lists that call is given
C19_LabelKeptAfterFirst ==
    (AggregateStep /\ agg_calls >= 1) =>
        \A id \in SuppliedIds(aggregate_arg) : project_label'[id] = project_label[id]

C19_LabelSetAtMostOnce == [][C19_SetOnlyWhenUnset /\ C19_LabelKeptAfterFirst]_vars

\* the same steps when every project has a non-empty name
C19_LabelSetAtMostOnceNamed ==
    [][(\A i \in 1..Len(project_todos) :
            project_todos[i].project_context.project_name # <<>>)
       => (C19_SetOnlyWhenUnset /\ C19_LabelKeptAfterFirst)]_vars

\* aggregating the same lists twice in a row changes no label
C19_SameListsAgain ==
    [][(AggregateStep /\ agg_calls >= 1 /\ aggregate_arg' = aggregate_arg)
       => project_label' = project_label]_vars

(***************************************************************************)
(* C21.  For each requested day the day partition puts a scheduled segment *)
(* (and likewise a blocked interval) into that day's DaySchedule if and    *)
(* only if its interval [start, end) intersects that calendar day; a       *)
(* segment that spans midnight appears in full in both days it touches.    *)
(***************************************************************************)
\* [s, e) and the calendar day day_date have an instant in common
IntersectsDay(s, e, day_date) ==
    s < (day_date + 1) * TicksPerDay /\ day_date * TicksPerDay < e

InDayBlocks(b, day_date) ==
    \E k \in 1..Len(result[day_date].blocked_time) : result[day_date].blocked_time[k] = b

C21_PartitionByIntersection ==
    (Done /\ mode = "schedule_continuous") =>
        \A day_date \in DOMAIN result :
            /\ \A k \in 1..Len(scheduled) :
                  InDaySchedule(scheduled[k], day_date)
                      <=> IntersectsDay(scheduled[k].start, scheduled[k].end, day_date)
            /\ \A k \in 1..Len(sorted_blocks) :
                  InDayBlocks(sorted_blocks[k], day_date)
                      <=> IntersectsDay(sorted_blocks[k].start, sorted_blocks[k].end, day_date)

\* the same partition stated on the calendar dates of the two boundaries,
\* the end taken inclusively
C21_PartitionByBoundaryDates ==
    (Done /\ mode = "schedule_continuous") =>
        \A day_date \in DOMAIN result :
            /\ \A k \in 1..Len(scheduled) :
                  InDaySchedule(scheduled[k], day_date)
                      <=> (date(scheduled[k].start) <= day_date
                           /\ day_date <= date(scheduled[k].end))
            /\ \A k \in 1..Len(sorted_blocks) :
                  InDayBlocks(sorted_blocks[k], day_date)
                      <=> (date(sorted_blocks[k].start) <= day_date
                           /\ day_date <= date(sorted_blocks[k].end))

\* a segment that ends at midnight exactly and is listed on the day after
C21_EndsAtMidnightListedNextDay ==
    /\ Done /\ mode = "schedule_continuous" /\ num_days = 2
    /\ \E k \in 1..Len(scheduled) :
          /\ scheduled[k].end = (date(start_time) + 1) * TicksPerDay
          /\ InDaySchedule(scheduled[k], date(start_time) + 1)

(***************************************************************************)
(* C22.  In a multi-day result all conflict messages of the continuous run *)
(* are attached to the first requested day's DaySchedule and every other   *)
(* day's DaySchedule has an empty conflict list, so each conflict is       *)
(* reported exactly once across the returned days.                         *)
(***************************************************************************)
\* the conflict lists of the returned days, first day first, concatenated
RECURSIVE ConflictsFromDay(_)
ConflictsFromDay(day_date) ==
    IF day_date \notin DOMAIN result THEN <<>>
    ELSE result[day_date].conflicts \o ConflictsFromDay(day_date + 1)

C22_ConflictsOnFirstDayOnly ==
    (Done /\ mode = "schedule_continuous" /\ num_days >= 1) =>
        /\ conflicts = _schedule_opportunistically(tasks, start_time, sorted_blocks).conflicts
        /\ result[date(start_time)].conflicts = conflicts
        /\ \A day_date \in DOMAIN result :
              day_date # date(start_time) => result[day_date].conflicts = <<>>
        /\ ConflictsFromDay(date(start_time)) = conflicts

\* a task that misses its deadline by finishing on the second day: the
\* conflict is listed on the first day, none on the second
C22_Witness ==
    /\ Done /\ mode = "schedule_continuous" /\ num_days = 2
    /\ Len(conflicts) = 1
    /\ \E k \in 1..Len(scheduled) :
          /\ scheduled[k].violates_deadline_external
          /\ date(scheduled[k].start) = date(start_time) + 1
          /\ InDaySchedule(scheduled[k], date(start_time) + 1)
          /\ ~InDaySchedule(scheduled[k], date(start_time))
    /\ result[date(start_time)].conflicts = conflicts
    /\ result[date(start_time) + 1].conflicts = <<>>

(***************************************************************************)
(* C23.  The DaySchedule returned by single-day placement (schedule_tasks) *)
(* carries the start instant's calendar date and contains only scheduled   *)
(* segments that intersect that day.                                       *)
(***************************************************************************)
C23_SingleDayHoldsItsDayOnly ==
    (Done /\ mode = "schedule_tasks") =>
        /\ result.date = date(start_time)
        /\ \A k \in 1..Len(result.scheduled_tasks) :
              IntersectsDay(result.scheduled_tasks[k].start,
                            result.scheduled_tasks[k].end, result.date)

\* the DaySchedule of schedule_tasks carries the start date and every
\* segment of the run, whatever its day
C23_SingleDayHoldsWholeRun ==
    (Done /\ mode = "schedule_tasks") =>
        /\ result.date = date(start_time)
        /\ result.scheduled_tasks = scheduled
        /\ result.blocked_time = sorted_blocks
        /\ result.conflicts = conflicts

\* a run started at 23:00 whose second task lies wholly on the next day
C23_NextDaySegmentListed ==
    /\ Done /\ mode = "schedule_tasks" /\ start_time = 23 * Hour
    /\ \E k \in 1..Len(result.scheduled_tasks) :
          result.scheduled_tasks[k].start >= (date(start_time) + 1) * TicksPerDay

(***************************************************************************)
(* C24.  A task's effective_deadline is its external deadline whenever one *)
(* is set (even if the user deadline is earlier), its user deadline when   *)
(* only that is set, and absent when neither is set; urgency scoring and   *)
(* the safety check use only this effective deadline.                      *)
(***************************************************************************)
\* the task with another user deadline
WithUserDeadline(t, du) ==
    Task(t.id, t.title, t.estimated_duration, du, t.deadline_external, t.completed)

\* the tasks of the list with the user deadline du wherever an external
\* deadline is set
UserDeadlinesReplaced(task_list, du) ==
    MapSeq(LAMBDA t : IF t.deadline_external # None THEN WithUserDeadline(t, du) ELSE t,
           task_list)

C24_EffectiveDeadlineOnly ==
    (pc = "loop" /\ ValidInput) =>
        \A k \in 1..Len(incomplete_tasks) :
            /\ effective_deadline(incomplete_tasks[k])
                   = (IF incomplete_tasks[k].deadline_external # None
                      THEN incomplete_tasks[k].deadline_external
                      ELSE IF incomplete_tasks[k].deadline_user # None
                      THEN incomplete_tasks[k].deadline_user
                      ELSE None)
            /\ \A du \in Deadlines :
                  /\ _calculate_urgency(incomplete_tasks[k], current_time,
                                        Get(remaining_work, incomplete_tasks[k].id),
                                        sorted_blocks)
                       = _calculate_urgency(
                             UserDeadlinesReplaced(incomplete_tasks, du)[k], current_time,
                             Get(remaining_work, incomplete_tasks[k].id), sorted_blocks)
                  /\ _is_safe_to_schedule(incomplete_tasks[k], current_time, remaining_work,
                                          Candidates(incomplete_tasks, remaining_work),
                                          sorted_blocks)
                       = _is_safe_to_schedule(
                             UserDeadlinesReplaced(incomplete_tasks, du)[k], current_time,
                             remaining_work,
                             Candidates(UserDeadlinesReplaced(incomplete_tasks, du),
                                        remaining_work),
                             sorted_blocks)

\* two candidates at the cursor, one of them with a user deadline earlier
\* than its external deadline and not yet passed
C24_Witness ==
    /\ pc = "loop" /\ ValidInput
    /\ Len(Candidates(incomplete_tasks, remaining_work)) = 2
    /\ \E k \in 1..Len(incomplete_tasks) :
          /\ Get(remaining_work, incomplete_tasks[k].id) > 0
          /\ incomplete_tasks[k].deadline_user # None
          /\ incomplete_tasks[k].deadline_external # None
          /\ current_time < incomplete_tasks[k].deadline_user
          /\ incomplete_tasks[k].deadline_user < incomplete_tasks[k].deadline_external
          /\ effective_deadline(incomplete_tasks[k]) = incomplete_tasks[k].deadline_external

(***************************************************************************)
(* C25.  Malformed domain values cannot be constructed: a Task with        *)
(* non-positive estimated duration or a timezone-naive deadline, a         *)
(* TimeBlock or ScheduledTask with start >= end or a naive boundary, a     *)
(* non-segment ScheduledTask whose length differs from its task's          *)
(* estimated duration, and a segment ScheduledTask whose segment_index is  *)
(* missing or outside [1, total_segments] all fail at construction.        *)
(***************************************************************************)
MalformedTask(a) ==
    \/ a.estimated_duration <= 0
    \/ a.deadline_user # None /\ ~a.user_aware
    \/ a.deadline_external # None /\ ~a.external_aware

MalformedInterval(a) == a.start >= a.end \/ ~a.start_aware \/ ~a.end_aware

MalformedScheduledTask(a) ==
    \/ MalformedInterval(a)
    \/ ~a.is_segment /\ a.end - a.start # a.task.estimated_duration
    \/ a.is_segment /\ a.segment_index = None
    \/ a.is_segment /\ a.total_segments # None
          /\ (a.segment_index < 1 \/ a.segment_index > a.total_segments)

Malformed(a) ==
    CASE a.cls = "Task" -> MalformedTask(a)
      [] a.cls = "TimeBlock" -> MalformedInterval(a)
      [] a.cls = "ScheduledTask" -> MalformedScheduledTask(a)

C25_MalformedValuesRejected ==
    (ctor_result \in {"ok", "ValueError"} /\ Malformed(ctor_call))
        => ctor_result = "ValueError"

\* a segment ScheduledTask with index 3 of 2, otherwise well formed, rejected
C25_Witness ==
    /\ ctor_result = "ValueError" /\ ctor_call.cls = "ScheduledTask"
    /\ ctor_call.is_segment /\ ctor_call.segment_index = 3 /\ ctor_call.total_segments = 2
    /\ ~MalformedInterval(ctor_call)

(***************************************************************************)
(* C26.  At every selection step, the selected task is the first           *)
(* candidate, in ascending urgency-score order, that passes the safety     *)
(* check; when no candidate passes the safety check, the selected task is  *)
(* the candidate with the lowest urgency score.                            *)
(***************************************************************************)
\* the candidates of the selection step taken in the current state
StepCandidates == Candidates(incomplete_tasks, remaining_work)

StepScore(t) ==
    _calculate_urgency(t, current_time, Get(remaining_work, t.id), sorted_blocks)

StepSafe(t) ==
    _is_safe_to_schedule(t, current_time, remaining_work, StepCandidates, sorted_blocks)

\* index k of the candidate list comes before index j in ascending score
\* order (equal scores keep the order of the list)
RanksBefore(k, j) ==
    \/ StepScore(StepCandidates[k]) < StepScore(StepCandidates[j])
    \/ StepScore(StepCandidates[k]) = StepScore(StepCandidates[j]) /\ k < j

\* candidate k is the one the claim describes
FirstSafeElseLowest(k) ==
    LET idx == 1..Len(StepCandidates)
    IN  IF \E j \in idx : StepSafe(StepCandidates[j])
        THEN /\ StepSafe(StepCandidates[k])
             /\ \A j \in idx \ {k} : StepSafe(StepCandidates[j]) => RanksBefore(k, j)
        ELSE \A j \in idx \ {k} : RanksBefore(k, j)

\* the step places a segment of the task with this id
PlacesSegmentOf(id) ==
    /\ id \in DOMAIN remaining_work
    /\ remaining_work'[id] < remaining_work[id]

C26_SelectsFirstSafeElseMostUrgent ==
    [][(pc = "loop" /\ ValidInput) =>
          \A id \in DOMAIN remaining_work :
              PlacesSegmentOf(id) =>
                  \E k \in 1..Len(StepCandidates) :
                      /\ StepCandidates[k].id = id
                      /\ FirstSafeElseLowest(k)]_vars

\* a segment was placed for a task that passed the safety check although a
\* candidate that failed it had a lower score at that cursor
C26_Witness ==
    /\ pc = "loop" /\ ValidInput /\ Len(segments_by_task) = 1
    /\ Len(segments_by_task[1].segments) = 1
    /\ LET first == segments_by_task[1].segments[1][1]
           at == segments_by_task[1].segments[1][2]
           before == InitialRemainingWork(tasks)
           cands == Candidates(incomplete_tasks, before)
       IN  /\ _is_safe_to_schedule(first, at, before, cands, sorted_blocks)
           /\ \E j \in 1..Len(cands) :
                 /\ ~_is_safe_to_schedule(cands[j], at, before, cands, sorted_blocks)
                 /\ _calculate_urgency(cands[j], at, Get(before, cands[j].id), sorted_blocks)
                        < _calculate_urgency(first, at, Get(before, first.id), sorted_blocks)

(***************************************************************************)
(* C27.  At any cursor, the urgency score of every task without a deadline *)
(* ranks after (is greater than) the score of every task that has a        *)
(* deadline which has not yet passed, whatever their remaining durations   *)
(* and the blocked intervals.                                              *)
(***************************************************************************)
\* candidates a (no deadline) and b (deadline ahead of the cursor) at the
\* cursor of the current state
NoDeadlineAgainstPending(a, b) ==
    /\ effective_deadline(a) = None
    /\ effective_deadline(b) # None
    /\ effective_deadline(b) > current_time

C27_Ranking ==
    \A i, j \in 1..Len(StepCandidates) :
        NoDeadlineAgainstPending(StepCandidates[i], StepCandidates[j])
            => StepScore(StepCandidates[i]) > StepScore(StepCandidates[j])

C27_NoDeadlineRanksLast == (pc = "loop" /\ ValidInput) => C27_Ranking

\* the same, for deadlines less than NO_DEADLINE_BASE seconds ahead
C27_NoDeadlineRanksAfterNear ==
    (\A k \in 1..Len(tasks) :
        /\ tasks[k].deadline_user < FarDeadline \div 2
        /\ tasks[k].deadline_external < FarDeadline \div 2)
        => C27_NoDeadlineRanksLast

\* a cursor with both kinds of candidates
C27_BothKinds ==
    /\ pc = "loop" /\ ValidInput
    /\ \E i, j \in 1..Len(StepCandidates) :
           /\ NoDeadlineAgainstPending(StepCandidates[i], StepCandidates[j])
           /\ sorted_blocks # <<>>
           /\ effective_deadline(StepCandidates[j]) < FarDeadline \div 2

(***************************************************************************)
(* C28.  For two tasks whose deadlines have not passed and whose slack at  *)
(* the current cursor is equal, one with an external deadline and one with *)
(* only a user deadline, the external-deadline task's urgency score is     *)
(* never higher (never less urgent) than the user-deadline task's:         *)
(* halving the score makes an external deadline at least as urgent.        *)
(***************************************************************************)
\* slack of candidate t at the cursor: time to the deadline beyond the time
\* the remaining work takes with the blocks
StepSlack(t) ==
    (effective_deadline(t) - current_time)
        - (_estimate_completion_time(current_time, Get(remaining_work, t.id), sorted_blocks)
               - current_time)

\* x has an external deadline, u only a user deadline, neither has passed,
\* and their slack is equal
ExternalAgainstUser(x, u) ==
    /\ x.deadline_external # None
    /\ u.deadline_external = None /\ u.deadline_user # None
    /\ effective_deadline(x) > current_time
    /\ effective_deadline(u) > current_time
    /\ StepSlack(x) = StepSlack(u)

C28_ExternalNeverLessUrgent ==
    (pc = "loop" /\ ValidInput) =>
        \A i, j \in 1..Len(StepCandidates) :
            ExternalAgainstUser(StepCandidates[i], StepCandidates[j])
                => StepScore(StepCandidates[i]) <= StepScore(StepCandidates[j])

\* the same, when the common slack is not negative
C28_ExternalNeverLessUrgentWithSlack ==
    (pc = "loop" /\ ValidInput) =>
        \A i, j \in 1..Len(StepCandidates) :
            (/\ ExternalAgainstUser(StepCandidates[i], StepCandidates[j])
             /\ StepSlack(StepCandidates[i]) >= 0)
                => StepScore(StepCandidates[i]) <= StepScore(StepCandidates[j])

\* a cursor with such a pair and positive slack: the external score is lower
C28_PositiveSlackPair ==
    /\ pc = "loop" /\ ValidInput
    /\ \E i, j \in 1..Len(StepCandidates) :
           /\ ExternalAgainstUser(StepCandidates[i], StepCandidates[j])
           /\ StepSlack(StepCandidates[i]) > 0
           /\ StepScore(StepCandidates[i]) < StepScore(StepCandidates[j])

(***************************************************************************)
(* C29.  The number of segments produced by a placement run is at most the *)
(* number of incomplete tasks plus the number of blocked intervals         *)
(* supplied, because every segment ends either when its task finishes or   *)
(* at the start of a blocked interval that no later segment ends at.       *)
(***************************************************************************)
SegmentBound == Len(IncompleteTasks(tasks)) + Len(InputBlocks)

\* segment i of group g is the one that finishes the task of the group
FinishesTask(g, i) ==
    /\ i = Len(g.segments)
    /\ SeqSum(MapSeq(LAMBDA sg : sg[3] - sg[2], g.segments)) = g.segments[1][1].estimated_duration

EndsAtBlockStart(e) == \E b \in 1..Len(InputBlocks) : InputBlocks[b].start = e

\* the number of produced segments that end at instant e
EndingAt(e) ==
    Cardinality({k \in 1..Len(AllProducedSegments) : AllProducedSegments[k][2] = e})

C29_SegmentsBounded ==
    ValidInput =>
        /\ Len(AllProducedSegments) <= SegmentBound
        /\ Done => Len(scheduled) <= SegmentBound
        /\ \A g \in 1..Len(segments_by_task) :
               \A i \in 1..Len(segments_by_task[g].segments) :
                   LET e == segments_by_task[g].segments[i][3]
                   IN  \/ FinishesTask(segments_by_task[g], i)
                       \/ EndsAtBlockStart(e) /\ EndingAt(e) = 1

\* a finished run with a blocked interval that produced as many segments as
\* the bound allows
C29_Witness ==
    /\ Done /\ ValidInput /\ Len(InputBlocks) >= 1
    /\ Len(scheduled) = SegmentBound

(***************************************************************************)
(* C30.  A placement run leaves its inputs unchanged: after schedule_tasks *)
(* or schedule_continuous returns, every input task has the same           *)
(* attributes as before, the caller's blocked-interval list has the same   *)
(* order and contents, and every ScheduledTask refers to one of the input  *)
(* tasks.                                                                  *)
(***************************************************************************)
\* no step of a run changes a task, its project label or the caller's blocks
InputsKept ==
    /\ tasks' = tasks
    /\ project_label' = project_label
    /\ blocked_arg' = blocked_arg
    /\ daily_blocks' = daily_blocks

IsInputTask(t) == \E i \in 1..Len(tasks) : tasks[i] = t

\* every ScheduledTask returned, in the list and in every DaySchedule
ReturnedScheduledTasks ==
    {scheduled[k] : k \in 1..Len(scheduled)}
    \cup (IF mode = "schedule_continuous"
          THEN UNION {{result[d].scheduled_tasks[k] : k \in 1..Len(result[d].scheduled_tasks)}
                          : d \in DOMAIN result}
          ELSE {result.scheduled_tasks[k] : k \in 1..Len(result.scheduled_tasks)})

RefersToInputs == Done => \A st \in ReturnedScheduledTasks : IsInputTask(st.task)

C30_InputsUnchanged == [][InputsKept /\ RefersToInputs']_vars

\* schedule_tasks returned segments for a block list handed over out of order
C30_Witness ==
    /\ Done /\ mode = "schedule_tasks" /\ Len(scheduled) >= 1
    /\ Len(blocked_arg) = 2 /\ blocked_arg[2].start < blocked_arg[1].start
    /\ sorted_blocks # blocked_arg
(***************************************************************************)
(* C31.  The placement is work-conserving: between the start instant and   *)
(* the end of the last segment, every instant is covered either by a       *)
(* scheduled segment or by a blocked interval, so no unblocked time is     *)
(* left idle while some task still has remaining work.                     *)
(***************************************************************************)
\* the end of the latest segment produced so far (the start instant if none)
RECURSIVE LatestEnd(_, _)
LatestEnd(pairs, least) ==
    IF pairs = <<>> THEN least
    ELSE LatestEnd(Tail(pairs), IF Head(pairs)[2] > least THEN Head(pairs)[2] ELSE least)

\* the tick [u, u + 1) lies inside a produced segment
InSegment(u) ==
    \E k \in 1..Len(AllProducedSegments) :
        AllProducedSegments[k][1] <= u /\ u < AllProducedSegments[k][2]

C31_WorkConserving ==
    (ValidInput /\ pc \in {"loop", "done"}) =>
        \A u \in start_time..(LatestEnd(AllProducedSegments, start_time) - 1) :
            FreeTick(u) => InSegment(u)

\* a finished run whose segments lie on both sides of a blocked interval
\* that begins after the start instant
C31_Witness ==
    /\ Done /\ ValidInput /\ Len(InputBlocks) >= 1 /\ Len(AllProducedSegments) >= 2
    /\ \E b \in 1..Len(InputBlocks) :
           /\ start_time < InputBlocks[b].start
           /\ \E i, j \in 1..Len(AllProducedSegments) :
                  /\ AllProducedSegments[i][2] = InputBlocks[b].start
                  /\ AllProducedSegments[j][1] = InputBlocks[b].end
(***************************************************************************)
(* C32.  Every segment that is not the last segment of its task ends       *)
(* exactly at the start of some blocked interval; a task with remaining    *)
(* work is therefore only ever interrupted at a blocked-interval boundary, *)
(* never in the middle of free time by a more urgent task.                 *)
(***************************************************************************)
\* segment i of group g leaves work of its task undone: a later segment of
\* the group exists, or the task still has remaining work
LeavesWork(g, i) ==
    \/ i < Len(g.segments)
    \/ Get(remaining_work, g.id) > 0

C32_InterruptedAtBlockStartOnly ==
    (ValidInput /\ pc \in {"loop", "done"}) =>
        \A g \in 1..Len(segments_by_task) :
            \A i \in 1..Len(segments_by_task[g].segments) :
                LeavesWork(segments_by_task[g], i)
                    => EndsAtBlockStart(segments_by_task[g].segments[i][3])

\* a task was interrupted by a blocked interval, and the first segment after
\* that interval went to another task
C32_Witness ==
    /\ Done /\ ValidInput /\ Len(segments_by_task) = 2
    /\ \E g, h \in 1..2 :
          /\ g # h
          /\ Len(segments_by_task[g].segments) >= 2
          /\ segments_by_task[g].segments[1][3] < segments_by_task[h].segments[1][2]
          /\ segments_by_task[h].segments[1][2] < segments_by_task[g].segments[2][2]
(***************************************************************************)
(* C33.  The cursor never moves backwards during a run and segments are    *)
(* produced in strictly increasing start order, so segments of different   *)
(* tasks never overlap each other and the output list sorted by start is   *)
(* the order of production.                                                *)
(***************************************************************************)
RawSegments(groups) ==
    UNION {{groups[g].segments[i] : i \in 1..Len(groups[g].segments)}
               : g \in 1..Len(groups)}

\* a step of the loop: the cursor does not go back, and a segment produced
\* by the step starts at or after the cursor, after the start and not
\* before the end of every segment produced earlier
C33_Step ==
    (pc = "loop" /\ pc' = "loop" /\ ValidInput) =>
        /\ current_time' >= current_time
        /\ \A new \in RawSegments(segments_by_task') \ RawSegments(segments_by_task) :
               /\ new[2] >= current_time
               /\ new[3] = current_time'
               /\ \A old \in RawSegments(segments_by_task) :
                      old[2] < new[2] /\ old[3] <= new[2]

\* segments of different tasks are disjoint, and the returned list holds the
\* produced segments by strictly increasing start
C33_State ==
    (ValidInput /\ pc \in {"loop", "done"}) =>
        /\ start_time <= current_time
        /\ \A a, b \in RawSegments(segments_by_task) :
               a[1].id # b[1].id => ~Overlap(a[2], a[3], b[2], b[3])
        /\ Done =>
              /\ Len(scheduled) = Len(InPlacementOrder)
              /\ \A k \in 1..Len(scheduled) :
                    /\ scheduled[k].task = InPlacementOrder[k][1]
                    /\ scheduled[k].start = InPlacementOrder[k][2]
                    /\ scheduled[k].end = InPlacementOrder[k][3]
                    /\ k > 1 => scheduled[k - 1].start < scheduled[k].start

C33_CursorForwardSegmentsInOrder == []C33_State /\ [][C33_Step]_vars

\* the returned list alternates between two tasks: the second task's segment
\* lies between two segments of the first
C33_Witness ==
    /\ Done /\ ValidInput /\ Len(scheduled) >= 3
    /\ scheduled[1].task.id = scheduled[3].task.id
    /\ scheduled[2].task.id # scheduled[1].task.id
(***************************************************************************)
(* C34.  In the safety check the 'critical deadline' classification never  *)
(* changes the outcome: a candidate is unsafe if and only if some other    *)
(* task with remaining work and an effective deadline could not finish by  *)
(* that deadline when started at the candidate's estimated completion      *)
(* time, irrespective of whether that deadline is external or user-set and *)
(* of the user-deadline slack threshold.                                   *)
(***************************************************************************)
\* the instant at which candidate t would finish when started at the cursor
StepEstimatedEnd(t) ==
    _estimate_completion_time(current_time, Get(remaining_work, t.id), sorted_blocks)

\* o, started when t is estimated to finish, ends after its deadline
MissesAfter(t, o) ==
    /\ o.id # t.id
    /\ Get(remaining_work, o.id) > 0
    /\ effective_deadline(o) # None
    /\ _estimate_completion_time(StepEstimatedEnd(t), Get(remaining_work, o.id),
                                 sorted_blocks) > effective_deadline(o)

C34_CriticalClassificationIrrelevant ==
    (pc = "loop" /\ ValidInput) =>
        \A i \in 1..Len(StepCandidates) :
            ~StepSafe(StepCandidates[i])
                <=> \E j \in 1..Len(StepCandidates) :
                        MissesAfter(StepCandidates[i], StepCandidates[j])

\* a candidate is unsafe because of a task that has a user deadline only
C34_Witness ==
    /\ pc = "loop" /\ ValidInput /\ sorted_blocks # <<>>
    /\ \E i, j \in 1..Len(StepCandidates) :
          /\ ~StepSafe(StepCandidates[i])
          /\ StepCandidates[j].deadline_external = None
          /\ MissesAfter(StepCandidates[i], StepCandidates[j])
(***************************************************************************)
(* C35.  When two candidates have equal urgency scores, the one that       *)
(* appears earlier in the input (prioritized) task order is considered     *)
(* first, so if both are safe the earlier-listed task is selected: the     *)
(* baseline priority order decides whenever urgency does not               *)
(* differentiate.                                                          *)
(***************************************************************************)
\* candidate k is not passed over for a later-listed candidate of the same
\* score: an earlier one of equal score was considered and found unsafe
EarlierTiesConsidered(k) ==
    \A i \in 1..(k - 1) :
        StepScore(StepCandidates[i]) = StepScore(StepCandidates[k])
            => StepSafe(StepCandidates[k]) /\ ~StepSafe(StepCandidates[i])

C35_TiesByInputOrder ==
    [][(pc = "loop" /\ ValidInput) =>
          \A id \in DOMAIN remaining_work :
              PlacesSegmentOf(id) =>
                  \E k \in 1..Len(StepCandidates) :
                      StepCandidates[k].id = id /\ EarlierTiesConsidered(k)]_vars

\* two tasks with deadlines had equal scores at the start instant, both
\* passed the safety check, and the first segment went to the earlier-listed
C35_Witness ==
    /\ pc = "loop" /\ ValidInput /\ Len(segments_by_task) = 1
    /\ Len(segments_by_task[1].segments) = 1
    /\ Len(incomplete_tasks) = 2
    /\ incomplete_tasks[1].id # incomplete_tasks[2].id
    /\ LET first == segments_by_task[1].segments[1][1]
           before == InitialRemainingWork(tasks)
           cands == Candidates(incomplete_tasks, before)
       IN  /\ first = incomplete_tasks[1]
           /\ effective_deadline(incomplete_tasks[1]) # None
           /\ incomplete_tasks[1].estimated_duration # incomplete_tasks[2].estimated_duration
           /\ \A j \in 1..2 :
                 _is_safe_to_schedule(cands[j], start_time, before, cands, sorted_blocks)
           /\ _calculate_urgency(cands[1], start_time, Get(before, cands[1].id), sorted_blocks)
                 = _calculate_urgency(cands[2], start_time, Get(before, cands[2].id),
                                      sorted_blocks)
(***************************************************************************)
(* C36.  When no incomplete task has any deadline, tasks finish in         *)
(* non-decreasing order of estimated duration (ties broken by input        *)
(* order), and once a task has received its first segment no other task    *)
(* receives a segment until that task is finished, whatever the blocked    *)
(* intervals.                                                              *)
(***************************************************************************)
NoDeadlines ==
    \A k \in 1..Len(incomplete_tasks) : effective_deadline(incomplete_tasks[k]) = None

\* incomplete task i comes before incomplete task j: shorter, or equally
\* long and listed earlier
ShorterFirst(i, j) ==
    \/ incomplete_tasks[i].estimated_duration < incomplete_tasks[j].estimated_duration
    \/ /\ incomplete_tasks[i].estimated_duration = incomplete_tasks[j].estimated_duration
       /\ i < j

C36_ShortestFirstUninterrupted ==
    (ValidInput /\ pc \in {"loop", "done"} /\ NoDeadlines) =>
        \A i, j \in 1..Len(incomplete_tasks) :
            LET a == incomplete_tasks[i].id
                b == incomplete_tasks[j].id
            IN  (a # b /\ ShorterFirst(i, j) /\ ProducedSegments(b) # <<>>) =>
                   /\ remaining_work[a] = 0
                   /\ \A k \in 1..Len(ProducedSegments(a)) :
                          \A m \in 1..Len(ProducedSegments(b)) :
                              ProducedSegments(a)[k][2] <= ProducedSegments(b)[m][1]

\* the same, for runs whose durations are whole half hours
C36_ShortestFirstOnHalfHours == HalfHourRun => C36_ShortestFirstUninterrupted

\* the shorter task is listed second, is split by a blocked interval, and
\* both of its segments come before the longer task's first segment
C36_Witness ==
    /\ Done /\ ValidInput /\ NoDeadlines /\ Len(incomplete_tasks) = 2
    /\ incomplete_tasks[2].estimated_duration < incomplete_tasks[1].estimated_duration
    /\ Len(ProducedSegments(incomplete_tasks[2].id)) = 2
    /\ Len(ProducedSegments(incomplete_tasks[1].id)) >= 1
(***************************************************************************)
(* C37.  schedule_continuous returns exactly one DaySchedule for each of   *)
(* the num_days consecutive dates beginning at the start instant's date    *)
(* (none when num_days is 0); every segment whose start date lies within   *)
(* that span appears in the DaySchedule of its start date, while a segment *)
(* lying wholly after the last requested day appears in no DaySchedule     *)
(* even though it was placed.                                              *)
(***************************************************************************)
RequestedDates == {date(start_time) + k : k \in 0..(num_days - 1)}

LastRequestedDate == date(start_time) + num_days - 1

C37_OneDaySchedulePerRequestedDate ==
    (Done /\ mode = "schedule_continuous") =>
        /\ DOMAIN result = RequestedDates
        /\ Cardinality(DOMAIN result) = num_days
        /\ \A d \in DOMAIN result : result[d].date = d
        /\ \A k \in 1..Len(scheduled) :
              /\ date(scheduled[k].start) \in RequestedDates
                    => InDaySchedule(scheduled[k], date(scheduled[k].start))
              /\ date(scheduled[k].start) > LastRequestedDate
                    => \A d \in DOMAIN result : ~InDaySchedule(scheduled[k], d)

\* one requested day: a segment of that day is listed, and a segment placed
\* on the day after is in no DaySchedule
C37_Witness ==
    /\ Done /\ mode = "schedule_continuous" /\ num_days = 1
    /\ \E i, j \in 1..Len(scheduled) :
          /\ InDaySchedule(scheduled[i], date(start_time))
          /\ date(scheduled[j].start) > LastRequestedDate
          /\ ~InDaySchedule(scheduled[j], date(start_time))
(***************************************************************************)
(* C38.  The prioritizer's output is a permutation of the aggregated       *)
(* input: every task supplied by any project appears in the global order   *)
(* exactly as many times as it was supplied, and no task is dropped or     *)
(* invented, whatever its completion state or deadlines.                   *)
(***************************************************************************)
\* the tasks the projects of the latest aggregate call supplied, in order
SuppliedTasks == Flatten(MapSeq(LAMBDA todo : todo.tasks, aggregate_arg))

Occurrences(t, task_list) == Cardinality({k \in 1..Len(task_list) : task_list[k] = t})

Elements(task_list) == {task_list[k] : k \in 1..Len(task_list)}

C38_PoolIsPermutation ==
    /\ agg_pc \in {"aggregated", "pooled"} => PoolInput = SuppliedTasks
    /\ Pooled =>
          /\ Len(task_pool) = Len(SuppliedTasks)
          /\ \A t \in Elements(SuppliedTasks) \cup Elements(task_pool) :
                 Occurrences(t, task_pool) = Occurrences(t, SuppliedTasks)

\* a pool of three tasks, one complete, one with both deadlines
C38_Witness ==
    /\ Pooled /\ Len(task_pool) = 3
    /\ \E t \in Elements(task_pool) : t.completed
    /\ \E t \in Elements(task_pool) :
           ~t.completed /\ t.deadline_user # None /\ t.deadline_external # None

\* a pool that holds a task twice because two projects supplied it
C38_SuppliedTwice ==
    /\ Pooled
    /\ \E t \in Elements(task_pool) : Occurrences(t, task_pool) = 2
(***************************************************************************)
(* C39.  The estimated completion time computed for (cursor, remaining     *)
(* duration, blocked intervals) equals the end of the last segment the     *)
(* engine produces when that task alone is placed from that cursor with    *)
(* that remaining duration over the same blocked intervals, including      *)
(* overlapping blocked intervals and a cursor inside a blocked interval.   *)
(***************************************************************************)
\* the placement loop run for one task of the given remaining duration
PlacedAlone(cursor, remaining_duration, blocked_time) ==
    PlacementLoop(<<Task(1, 1, remaining_duration, None, None, FALSE)>>,
                  (1 :> remaining_duration), cursor, blocked_time, <<>>)

\* the end of the last segment of that placement
PlacedAloneEnd(cursor, remaining_duration, blocked_time) ==
    LET segments == PlacedAlone(cursor, remaining_duration, blocked_time)[1].segments
    IN  segments[Len(segments)][3]

\* the cursors and durations compared in a state of the loop: those of the
\* grid, the cursor of the run and the remaining work of its tasks
C39_Cursors == (0..MaxTime) \cup {current_time}

C39_Durations ==
    (1..MaxDur) \cup {Get(remaining_work, StepCandidates[i].id) : i \in 1..Len(StepCandidates)}

C39_EstimateIsPlacedAloneEnd ==
    (pc = "loop" /\ ValidInput) =>
        \A cursor \in C39_Cursors : \A remaining_duration \in C39_Durations :
            _estimate_completion_time(cursor, remaining_duration, sorted_blocks)
                = PlacedAloneEnd(cursor, remaining_duration, sorted_blocks)

\* two blocked intervals overlap, the cursor lies inside one of them, and a
\* candidate placed alone from there is split by a later blocked interval
C39_Witness ==
    /\ pc = "loop" /\ ValidInput
    /\ \E a, b \in 1..Len(sorted_blocks) :
          /\ a # b
          /\ Overlap(sorted_blocks[a].start, sorted_blocks[a].end,
                     sorted_blocks[b].start, sorted_blocks[b].end)
    /\ \E a \in 1..Len(sorted_blocks) :
          sorted_blocks[a].start < current_time /\ current_time < sorted_blocks[a].end
    /\ \E i \in 1..Len(StepCandidates) :
          /\ StepEstimatedEnd(StepCandidates[i])
                = PlacedAloneEnd(current_time, Get(remaining_work, StepCandidates[i].id),
                                 sorted_blocks)
          /\ StepEstimatedEnd(StepCandidates[i])
                > current_time + Get(remaining_work, StepCandidates[i].id)

\* a task placed alone is cut into two segments by a blocked interval
C39_SplitWitness ==
    /\ pc = "loop" /\ ValidInput
    /\ \E i \in 1..Len(StepCandidates) :
          Len(PlacedAlone(current_time, Get(remaining_work, StepCandidates[i].id),
                          sorted_blocks)[1].segments) > 1
=============================================================================
